---- MODULE Spec2Model ----
(***************************************************************************)
(* Verification model of tdewolff/geo, package osm: the dense uint64 Map   *)
(* and Set, the PBF blob framer and parallel Parse driver, the primitive   *)
(* decoders and the geometry extractor.                                    *)
(*                                                                         *)
(* Each component has its own specification (SpecMap, SpecSet, ...) over   *)
(* its own group of variables; the variables of the other components stay  *)
(* at their initial value.                                                 *)
(***************************************************************************)
EXTENDS Integers, Naturals, Sequences, FiniteSets, TLC

VARIABLES
    m,          \* the Map under test (uint64map.go: type Map)
    mref,       \* reference map: function from the live keys to their values
    mapLast,    \* the last Get: <<its result, the reference map's answer then>>
    s,          \* the Set under test (uint64set.go: type Set)
    sref,       \* reference set: the keys added and not deleted since
    setLast     \* the last Has: <<its result, the reference set's answer then>>

VARIABLES
    input,        \* the PBF input behind Parser.r: [blobs, len]
    rpos,         \* the read offset of Parser.r
    zWorkers,     \* Parser.Workers
    zpos,         \* Parser.pos
    blobContents, \* Parser.blobContents: blob index -> kinds seen in the blob
    calls,        \* Parse calls started so far
    funcs,        \* the kinds whose callback is non-nil in the current call
    ctxDone,      \* the caller's ctx is cancelled
    ctx2Done,     \* ctx2 is cancelled
    errs,         \* errs of the current call, as a set
    blobs,        \* the channel blobs: [queue, closed]
    reader,       \* the reader (the goroutine of Parse): [pc, index, blob]
    worker,       \* the workers: id -> [pc, blob]
    status,       \* "idle", "running", "returned" or "panicked"
    result,       \* what the last finished call returned: the joined errors, {} is nil
    delivered,    \* per record of the input, the entities passed to callbacks in this call
    handled,      \* records decoded to the end or skipped by fingerprint in this call
    skipped,      \* records skipped by fingerprint in this call
    readData,     \* records that z.blob returned as data blobs in this call
    everDecoded,  \* records decoded to the end in this or an earlier call
    startOff,     \* the read offset at which the current call started reading
    cancelAt      \* what was pending when ctx, or first ctx2, was cancelled in this call

VARIABLES
    dStrings,     \* length of the string table of the block being decoded
    dFuncs,       \* the kinds whose callback is non-nil
    dOut,         \* the entities passed to the callbacks, in order
    dErr,         \* a decoder has returned an error
    dBad,         \* the kinds of which the block held an invalid message
    dCount,       \* messages of the block consumed so far
    dDone,        \* the worker's function has returned
    dResult       \* what Parse returns for the block: the joined errors, {} is nil

VARIABLES
    xPhase,       \* the pass Extract is in: "nodes", "ways", "relations", "done", "hung"
    xFile,        \* the ids of the nodes in the input
    xNodes,       \* nodes: id -> [Coord, Outcode]
    xWays,        \* ways: id -> [Coords, First, Last]
    xGeoms        \* the geometries of the result, as a set

VARIABLES
    cWays,        \* the ways handed to connectRelationWays: [Coords, First, Last]
    cPhase,       \* "idle", "call", "returned" or "hung"
    cOut          \* the contours connectRelationWays returned

VARIABLES
    lPass,        \* the pass Extract is in: an index of Passes, 0 when it has returned
    lWorker,      \* per worker, the callback it runs: [prog, pc, in]
    lMutex,       \* mu1, mu2, mu3: [writer, readers]
    lUsed         \* the map accesses of the pass so far: [map, mode, held]

VARIABLES
    fFilter,      \* the filter: the class it gives to each node, way and relation
    fRelation,    \* the relation of the input
    fPhase,       \* the pass Extract is in, or idle, done, hung
    fSeen,        \* the entities the callback of the pass has been called on
    selectedNodes,     \* selectedNodes: id -> class
    selectedWays,      \* selectedWays: id -> class
    selectedRelations, \* selectedRelations: id -> class
    fNodes,       \* nodes: id -> [Coord, Class, Outcode]
    fWays,        \* ways: id -> [Coords, First, Last]
    fGeoms        \* the geometries of the result with their class, as a set

VARIABLES
    vX,           \* the uint64 the buffer was made of, as base-128 digits
    vBuf,         \* the buffer handed to readVarint or skipField
    vCall,        \* the function called: none, readVarint or skipField
    vWire,        \* the wireType argument of skipField
    vOut          \* what the call returned

VARIABLES
    kInner,       \* the coordinate of the node inside the bounds
    kOuter,       \* the coordinate of the node outside of them
    kDir,         \* out when the way goes from the inside node to the outside node, else in
    kCoords,      \* coords after the loop over way.Refs
    kDone         \* the loop has run

VARIABLES
    pPool,        \* the buffers in z.blobPool, as a bag: buffer -> how often it is in the pool
    pMade,        \* the buffers made so far
    pReader,      \* the reader in z.blob: [pc, buf]
    pChan,        \* the blobs in the channel: [data, type]
    pWorker       \* per worker [pc, data, type, buf]

VARIABLES
    tFile,        \* the relations of the file: id -> ids of its relation members
    tTodo,        \* relations not yet handed to relationFunc
    relationIDs,  \* ids of the relations seen
    relationRelationIDs,\* ids of the relation members seen
    relationParents,\* member id -> the relations that list it
    stats,        \* the Stats value being built
    tIter,        \* ids relationRelationIDs.Iterate has still to visit
    tPhase,       \* parse, iterate, tail, returned or panicked
    tCounted,     \* ghost: id -> where the Iterate callback counted it
    tDeepest      \* ghost: largest Depth relationDepth was called with

VARIABLES
    gFile,        \* the relations of the file: id -> types of its members
    gTodo,        \* relations not yet handed to relationFunc
    gRelations,   \* the slice relations that FindSuperRelations appends to
    gPhase,       \* parse, returned or failed
    gResult       \* what FindSuperRelations returned

mapVars == <<m, mref, mapLast>>
setVars == <<s, sref, setLast>>
parseVars ==
    <<input, rpos, zWorkers, zpos, blobContents, calls, funcs, ctxDone, ctx2Done,
      errs, blobs, reader, worker, status, result, delivered, handled, skipped,
      readData, everDecoded, startOff, cancelAt>>

decodeVars == <<dStrings, dFuncs, dOut, dErr, dBad, dCount, dDone, dResult>>

extractVars == <<xPhase, xFile, xNodes, xWays, xGeoms>>

connectVars == <<cWays, cPhase, cOut>>

lockVars == <<lPass, lWorker, lMutex, lUsed>>

selectVars ==
    <<fFilter, fRelation, fPhase, fSeen, selectedNodes, selectedWays,
      selectedRelations, fNodes, fWays, fGeoms>>

varintVars ==
    <<vX, vBuf, vCall, vWire, vOut>>

clipVars ==
    <<kInner, kOuter, kDir, kCoords, kDone>>

poolVars ==
    <<pPool, pMade, pReader, pChan, pWorker>>

statsVars ==
    <<tFile, tTodo, relationIDs, relationRelationIDs, relationParents,
      stats, tIter, tPhase, tCounted, tDeepest>>

findVars ==
    <<gFile, gTodo, gRelations, gPhase, gResult>>

vars ==
    <<mapVars, setVars, parseVars, decodeVars, extractVars, connectVars, lockVars,
      selectVars,
      varintVars,
      clipVars,
      poolVars,
      statsVars,
      findVars>>

\* what the operations of one component leave alone
notMapVars == <<setVars, parseVars, decodeVars, extractVars, connectVars, lockVars,
      selectVars,
      varintVars,
      clipVars,
      poolVars,
      statsVars,
      findVars>>
notSetVars == <<mapVars, parseVars, decodeVars, extractVars, connectVars, lockVars,
      selectVars,
      varintVars,
      clipVars,
      poolVars,
      statsVars,
      findVars>>
notParseVars == <<mapVars, setVars, decodeVars, extractVars, connectVars, lockVars,
      selectVars,
      varintVars,
      clipVars,
      poolVars,
      statsVars,
      findVars>>
notDecodeVars == <<mapVars, setVars, parseVars, extractVars, connectVars, lockVars,
      selectVars,
      varintVars,
      clipVars,
      poolVars,
      statsVars,
      findVars>>
notExtractVars == <<mapVars, setVars, parseVars, decodeVars, connectVars, lockVars,
      selectVars,
      varintVars,
      clipVars,
      poolVars,
      statsVars,
      findVars>>
notConnectVars == <<mapVars, setVars, parseVars, decodeVars, extractVars, lockVars,
      selectVars,
      varintVars,
      clipVars,
      poolVars,
      statsVars,
      findVars>>
notLockVars == <<mapVars, setVars, parseVars, decodeVars, extractVars, connectVars,
      selectVars,
      varintVars,
      clipVars,
      poolVars,
      statsVars,
      findVars>>
notSelectVars ==
    <<mapVars, setVars, parseVars, decodeVars, extractVars, connectVars, lockVars,
      varintVars,
      clipVars,
      poolVars,
      statsVars,
      findVars>>
notVarintVars ==
    <<mapVars, setVars, parseVars, decodeVars, extractVars, connectVars, lockVars, selectVars,
      clipVars,
      poolVars,
      statsVars,
      findVars>>
notClipVars ==
    <<mapVars, setVars, parseVars, decodeVars, extractVars, connectVars, lockVars, selectVars, varintVars,
      poolVars,
      statsVars,
      findVars>>
notPoolVars ==
    <<mapVars, setVars, parseVars, decodeVars, extractVars, connectVars, lockVars, selectVars, varintVars, clipVars,
      statsVars,
      findVars>>
notStatsVars ==
    <<mapVars, setVars, parseVars, decodeVars, extractVars, connectVars, lockVars, selectVars, varintVars, clipVars, poolVars,
      findVars>>
notFindVars ==
    <<mapVars, setVars, parseVars, decodeVars, extractVars, connectVars, lockVars, selectVars, varintVars, clipVars, poolVars, statsVars>>
----------------------------------------------------------------------------
(* Bounds of the model *)

MaxKey == 5          \* keys are drawn from 0 and 3..MaxKey
MaxUnderflow == 2    \* Set.size is followed down to -MaxUnderflow

\* key 0 (FREE_KEY), and keys from 3 on: 3 and 4 share their home slot in
\* tables of capacity 2 and 4
Keys == {0} \cup (3..MaxKey)
\* two values tell an updated entry from a stale one
Vals == {0, 1}

----------------------------------------------------------------------------
(* Hash mixing, shared by Map and Set *)

FREE_KEY == 0

\* INT_PHI = 0x9E3779B9 split in its two 16-bit halves
PhiHi == 40503
PhiLo == 31161

RECURSIVE XorBits(_, _, _)
XorBits(a, b, n) ==
    IF n = 0 THEN 0
    ELSE (((a % 2) + (b % 2)) % 2) + (2 * XorBits(a \div 2, b \div 2, n - 1))

\* phiMix: h := x * INT_PHI; return h ^ (h >> 16).  Only phiMix(x) & mask is
\* ever used, so the low 16 bits of the result are computed: bits 0..15 of h
\* xor bits 16..31 of h (exact for x < 2^15 and mask < 2^16).
phiMix(x) ==
    LET lo == x * PhiLo
        h0 == lo % 65536
        h1 == ((lo \div 65536) + (x * PhiHi)) % 65536
    IN XorBits(h0, h1, 16)

\* x & mask for a mask of the form 2^k - 1
BitAnd(x, mask) == x % (mask + 1)

RECURSIVE PowerOf2From(_, _)
PowerOf2From(p, x) == IF p >= x THEN p ELSE PowerOf2From(2 * p, x)

nextPowerOf2(x) == IF x = 0 THEN 1 ELSE PowerOf2From(1, x)

\* arraySize(exp, fill) with fill = num/den: nextPowerOf2(ceil(exp / fill)), at least 2
arraySize(exp, num, den) ==
    LET c == nextPowerOf2((exp * den + num - 1) \div num)
    IN IF c < 2 THEN 2 ELSE c

\* int(math.Floor(float64(n) * fillFactor))
FloorFill(n, num, den) == (n * num) \div den

\* the (size, fillFactor) pairs the containers are constructed with
CtorArgs == { <<1, 1, 2>>, <<1, 3, 4>>, <<2, 3, 4>> }

----------------------------------------------------------------------------
(* Map: interleaved keys and values, data[2i] key, data[2i+1] value *)

NewUint64Map(size, num, den) ==
    LET capacity == arraySize(size, num, den) IN
    [ data       |-> [i \in 0..(2 * capacity - 1) |-> 0],
      fillNum    |-> num,
      fillDen    |-> den,
      threshold  |-> FloorFill(capacity, num, den),
      size       |-> 0,
      mask       |-> capacity - 1,
      mask2      |-> 2 * capacity - 1,
      hasFreeKey |-> FALSE,
      freeVal    |-> 0,
      hung       |-> FALSE ]

MapLen(mm) == mm.mask2 + 1

MapKeySlots(mm) == { i \in 0..(MapLen(mm) - 1) : i % 2 = 0 }

MapHasFreeSlot(mm) == \E i \in MapKeySlots(mm) : mm.data[i] = FREE_KEY

MapStores(mm, key) == \E i \in MapKeySlots(mm) : mm.data[i] = key

MapHome(mm, key) == BitAnd(phiMix(key), mm.mask) * 2

RECURSIVE MapGetLoop(_, _, _)
MapGetLoop(mm, key, ptr) ==
    LET k == mm.data[ptr] IN
    IF k = FREE_KEY THEN [val |-> 0, ok |-> FALSE, hang |-> FALSE]
    ELSE IF k = key THEN [val |-> mm.data[ptr + 1], ok |-> TRUE, hang |-> FALSE]
    ELSE MapGetLoop(mm, key, BitAnd(ptr + 2, mm.mask2))

\* Get returns the value if the key is found.  A probe of a table without a
\* free slot for an absent key never returns: hang.
MapGet(mm, key) ==
    IF key = FREE_KEY
    THEN IF mm.hasFreeKey
         THEN [val |-> mm.freeVal, ok |-> TRUE, hang |-> FALSE]
         ELSE [val |-> 0, ok |-> FALSE, hang |-> FALSE]
    ELSE IF ~MapHasFreeSlot(mm) /\ ~MapStores(mm, key)
         THEN [val |-> 0, ok |-> FALSE, hang |-> TRUE]
         ELSE MapGetLoop(mm, key, MapHome(mm, key))

RECURSIVE MapPut(_, _, _), MapPutLoop(_, _, _, _), MapRehash(_), MapReinsert(_, _, _)

MapPutLoop(mm, key, val, ptr) ==
    LET k == mm.data[ptr] IN
    IF k = FREE_KEY
    THEN LET stored == [mm EXCEPT !.data = [@ EXCEPT ![ptr] = key, ![ptr + 1] = val]]
         IN IF stored.size >= stored.threshold
            THEN MapRehash(stored)
            ELSE [stored EXCEPT !.size = @ + 1]
    ELSE IF k = key
    THEN [mm EXCEPT !.data = [@ EXCEPT ![ptr + 1] = val]]
    ELSE MapPutLoop(mm, key, val, BitAnd(ptr + 2, mm.mask2))

MapPut(mm, key, val) ==
    IF mm.hung THEN mm
    ELSE IF key = FREE_KEY
    THEN [mm EXCEPT !.freeVal = val,
                    !.size = IF mm.hasFreeKey THEN @ ELSE @ + 1,
                    !.hasFreeKey = TRUE]
    ELSE IF ~MapHasFreeSlot(mm) /\ ~MapStores(mm, key)
    THEN [mm EXCEPT !.hung = TRUE]
    ELSE MapPutLoop(mm, key, val, MapHome(mm, key))

\* the loop of rehash over the old array: for i := 0; i < len(old); i += 2
MapReinsert(mm, old, i) ==
    IF i \notin DOMAIN old THEN mm
    ELSE IF old[i] # FREE_KEY
    THEN MapReinsert(MapPut(mm, old[i], old[i + 1]), old, i + 2)
    ELSE MapReinsert(mm, old, i + 2)

MapRehash(mm) ==
    LET len == MapLen(mm)
        newCapacity == len * 2
        fresh == [mm EXCEPT !.threshold = FloorFill(len, mm.fillNum, mm.fillDen),
                            !.mask = len - 1,
                            !.mask2 = newCapacity - 1,
                            !.size = IF mm.hasFreeKey THEN 1 ELSE 0,
                            !.data = [i \in 0..(newCapacity - 1) |-> 0]]
    IN MapReinsert(fresh, mm.data, 0)

\* the slot test of shiftKeys: TRUE when the key at pos (home slot) is moved to last
ShiftBreaks(last, pos, slot) ==
    IF last <= pos
    THEN last >= slot \/ slot > pos
    ELSE last >= slot /\ slot > pos

RECURSIVE MapShiftKeys(_, _, _)
MapShiftKeys(mm, last, pos) ==
    LET k == mm.data[pos] IN
    IF k = FREE_KEY
    THEN [mm EXCEPT !.data = [@ EXCEPT ![last] = FREE_KEY]]
    ELSE IF ShiftBreaks(last, pos, MapHome(mm, k))
    THEN MapShiftKeys([mm EXCEPT !.data = [@ EXCEPT ![last] = k, ![last + 1] = mm.data[pos + 1]]],
                      pos, BitAnd(pos + 2, mm.mask2))
    ELSE MapShiftKeys(mm, last, BitAnd(pos + 2, mm.mask2))

\* MapDelLoop without shiftKeys: the slot is freed and the keys that were
\* probed past it stay where they are
RECURSIVE MapDelLoopNoShift(_, _, _)
MapDelLoopNoShift(mm, key, ptr) ==
    LET k == mm.data[ptr] IN
    IF k = key
    THEN [mm EXCEPT !.data = [@ EXCEPT ![ptr] = FREE_KEY], !.size = @ - 1]
    ELSE IF k = FREE_KEY THEN mm
    ELSE MapDelLoopNoShift(mm, key, BitAnd(ptr + 2, mm.mask2))

RECURSIVE MapDelLoop(_, _, _)
MapDelLoop(mm, key, ptr) ==
    LET k == mm.data[ptr] IN
    IF k = key
    THEN LET shifted == MapShiftKeys(mm, ptr, BitAnd(ptr + 2, mm.mask2))
         IN [shifted EXCEPT !.size = @ - 1]
    ELSE IF k = FREE_KEY THEN mm
    ELSE MapDelLoop(mm, key, BitAnd(ptr + 2, mm.mask2))

MapDel(mm, key) ==
    IF mm.hung THEN mm
    ELSE IF key = FREE_KEY
    THEN IF mm.hasFreeKey
         THEN [mm EXCEPT !.hasFreeKey = FALSE, !.size = @ - 1]
         ELSE mm
    ELSE IF ~MapHasFreeSlot(mm)
    THEN [mm EXCEPT !.hung = TRUE]
    ELSE MapDelLoop(mm, key, MapHome(mm, key))

MapSize(mm) == mm.size

----------------------------------------------------------------------------
(* Set: keys only *)

NewUint64Set(size, num, den) ==
    LET capacity == arraySize(size, num, den) IN
    [ data       |-> [i \in 0..(capacity - 1) |-> 0],
      fillNum    |-> num,
      fillDen    |-> den,
      threshold  |-> FloorFill(capacity, num, den),
      size       |-> 0,
      mask       |-> capacity - 1,
      mask2      |-> capacity - 1,
      hasFreeKey |-> FALSE,
      hung       |-> FALSE ]

SetLen(ss) == ss.mask2 + 1

SetHasFreeSlot(ss) == \E i \in DOMAIN ss.data : ss.data[i] = FREE_KEY

SetStores(ss, key) == \E i \in DOMAIN ss.data : ss.data[i] = key

SetHome(ss, key) == BitAnd(phiMix(key), ss.mask)

\* the for loop of Has: advance first, then test
RECURSIVE SetHasLoop(_, _, _)
SetHasLoop(ss, key, ptr) ==
    LET next == BitAnd(ptr + 1, ss.mask2)
        k == ss.data[next]
    IN IF k = FREE_KEY THEN "false"
       ELSE IF k = key THEN "true"
       ELSE SetHasLoop(ss, key, next)

\* Has checks if an element exists: "true", "false", or "hang" when the probe
\* never meets the key nor a free slot.  The test before the loop compares key
\* (not k) with FREE_KEY, as the code does.
SetHas(ss, key) ==
    IF key = FREE_KEY
    THEN IF ss.hasFreeKey THEN "true" ELSE "false"
    ELSE LET ptr == SetHome(ss, key)
             k == ss.data[ptr]
         IN IF key = FREE_KEY THEN "false"
            ELSE IF k = key THEN "true"
            ELSE IF ~SetHasFreeSlot(ss) /\ ~SetStores(ss, key) THEN "hang"
            ELSE SetHasLoop(ss, key, ptr)

RECURSIVE SetAdd(_, _), SetAddLoop(_, _, _), SetRehash(_), SetReinsert(_, _, _)

\* the slot test of Add, at the home slot and then in the for loop
SetAddLoop(ss, key, ptr) ==
    LET k == ss.data[ptr] IN
    IF k = FREE_KEY
    THEN LET stored == [ss EXCEPT !.data = [@ EXCEPT ![ptr] = key]]
         IN IF stored.size >= stored.threshold
            THEN SetRehash(stored)
            ELSE [stored EXCEPT !.size = @ + 1]
    ELSE IF k = key THEN ss
    ELSE SetAddLoop(ss, key, BitAnd(ptr + 1, ss.mask2))

SetAdd(ss, key) ==
    IF ss.hung THEN ss
    ELSE IF key = FREE_KEY
    THEN [ss EXCEPT !.size = IF ss.hasFreeKey THEN @ ELSE @ + 1,
                    !.hasFreeKey = TRUE]
    ELSE IF ~SetHasFreeSlot(ss) /\ ~SetStores(ss, key)
    THEN [ss EXCEPT !.hung = TRUE]
    ELSE SetAddLoop(ss, key, SetHome(ss, key))

\* the loop of rehash over the old array
SetReinsert(ss, old, i) ==
    IF i \notin DOMAIN old THEN ss
    ELSE IF old[i] # FREE_KEY
    THEN SetReinsert(SetAdd(ss, old[i]), old, i + 1)
    ELSE SetReinsert(ss, old, i + 1)

SetRehash(ss) ==
    LET newCapacity == SetLen(ss) * 2
        fresh == [ss EXCEPT !.threshold = FloorFill(newCapacity \div 2, ss.fillNum, ss.fillDen),
                            !.mask = newCapacity - 1,
                            !.mask2 = newCapacity - 1,
                            !.data = [i \in 0..(newCapacity - 1) |-> 0],
                            !.size = IF ss.hasFreeKey THEN 1 ELSE 0]
    IN SetReinsert(fresh, ss.data, 0)

RECURSIVE SetShiftKeys(_, _, _)
SetShiftKeys(ss, last, pos) ==
    LET k == ss.data[pos] IN
    IF k = FREE_KEY
    THEN [ss EXCEPT !.data = [@ EXCEPT ![last] = FREE_KEY]]
    ELSE IF ShiftBreaks(last, pos, SetHome(ss, k))
    THEN SetShiftKeys([ss EXCEPT !.data = [@ EXCEPT ![last] = k]],
                      pos, BitAnd(pos + 1, ss.mask2))
    ELSE SetShiftKeys(ss, last, BitAnd(pos + 1, ss.mask2))

\* the slot test of Del, at the home slot and then in the for loop
RECURSIVE SetDelLoop(_, _, _)
SetDelLoop(ss, key, ptr) ==
    LET k == ss.data[ptr] IN
    IF k = key
    THEN LET shifted == SetShiftKeys(ss, ptr, BitAnd(ptr + 1, ss.mask2))
         IN [shifted EXCEPT !.size = @ - 1]
    ELSE IF k = FREE_KEY THEN ss
    ELSE SetDelLoop(ss, key, BitAnd(ptr + 1, ss.mask2))

\* Del deletes an element; for FREE_KEY the size is decremented whether or not
\* the key was present.
SetDel(ss, key) ==
    IF ss.hung THEN ss
    ELSE IF key = FREE_KEY
    THEN [ss EXCEPT !.hasFreeKey = FALSE, !.size = @ - 1]
    ELSE IF ~SetHasFreeSlot(ss)
    THEN [ss EXCEPT !.hung = TRUE]
    ELSE SetDelLoop(ss, key, SetHome(ss, key))

SetSize(ss) == ss.size

----------------------------------------------------------------------------
(* Initial and idle states of the two containers *)

RefGet(r, k) ==
    IF k \in DOMAIN r
    THEN [val |-> r[k], ok |-> TRUE, hang |-> FALSE]
    ELSE [val |-> 0, ok |-> FALSE, hang |-> FALSE]

SetRefHas(r, k) == IF k \in r THEN "true" ELSE "false"

NoResult == <<"none", "none">>

InitMap ==
    /\ \E a \in CtorArgs : m = NewUint64Map(a[1], a[2], a[3])
    /\ mref = <<>>
    /\ mapLast = <<RefGet(<<>>, 0), RefGet(<<>>, 0)>>

IdleMap ==
    /\ m = NewUint64Map(1, 1, 2)
    /\ mref = <<>>
    /\ mapLast = <<RefGet(<<>>, 0), RefGet(<<>>, 0)>>

InitSet ==
    /\ \E a \in CtorArgs : s = NewUint64Set(a[1], a[2], a[3])
    /\ sref = {}
    /\ setLast = NoResult

IdleSet ==
    /\ s = NewUint64Set(1, 1, 2)
    /\ sref = {}
    /\ setLast = NoResult

----------------------------------------------------------------------------
(* Operations on the Map, with the reference map run alongside *)

RefPut(r, k, v) == [x \in (DOMAIN r) \cup {k} |-> IF x = k THEN v ELSE r[x]]

RefDel(r, k) == [x \in (DOMAIN r) \ {k} |-> r[x]]


MapPutOp(k, v) ==
    /\ ~m.hung
    /\ m' = MapPut(m, k, v)
    /\ mref' = RefPut(mref, k, v)
    /\ UNCHANGED <<mapLast, notMapVars>>

MapDelOp(k) ==
    /\ ~m.hung
    /\ m' = MapDel(m, k)
    /\ mref' = RefDel(mref, k)
    /\ UNCHANGED <<mapLast, notMapVars>>

MapGetOp(k) ==
    /\ ~m.hung
    /\ LET r == MapGet(m, k)
       IN /\ mapLast' = <<r, RefGet(mref, k)>>
          /\ m' = [m EXCEPT !.hung = r.hang]
    /\ UNCHANGED <<mref, notMapVars>>

(* Operations on the Set, with the reference set run alongside *)

SetAddOp(k) ==
    /\ ~s.hung
    /\ s' = SetAdd(s, k)
    /\ sref' = sref \cup {k}
    /\ UNCHANGED <<setLast, notSetVars>>

SetDelOp(k) ==
    /\ ~s.hung
    /\ (k = FREE_KEY /\ ~s.hasFreeKey) => s.size > -MaxUnderflow
    /\ s' = SetDel(s, k)
    /\ sref' = sref \ {k}
    /\ UNCHANGED <<setLast, notSetVars>>

SetHasOp(k) ==
    /\ ~s.hung
    /\ LET r == SetHas(s, k)
       IN /\ setLast' = <<r, SetRefHas(sref, k)>>
          /\ s' = [s EXCEPT !.hung = (r = "hang")]
    /\ UNCHANGED <<sref, notSetVars>>

----------------------------------------------------------------------------
(* The PBF input: a sequence of blob records, each a 4-byte big-endian     *)
(* length prefix, a BlobHeader of hlen bytes and a Blob body of datasize   *)
(* bytes; the input may end before the end of its last record              *)

Kinds == {"node", "way", "relation"}

PrefixLen == 4

\* a primitive group: its kind, its number of entities, and the first entity
\* that fails the decoder's validation (0: none does)
Group(kind, n, badAt) == [kind |-> kind, n |-> n, badAt |-> badAt]

\* bad = "block": the Blob payload cannot be turned into a PrimitiveBlock
HeaderBlob ==
    [typ |-> "OSMHeader", hlen |-> 1, datasize |-> 1, groups |-> <<>>, bad |-> "no"]

DataBlob(groups, bad) ==
    [typ |-> "OSMData", hlen |-> 2, datasize |-> 2, groups |-> groups, bad |-> bad]

WellFormedFile ==
    << HeaderBlob,
       DataBlob(<<Group("node", 2, 0)>>, "no"),
       DataBlob(<<Group("way", 1, 0), Group("relation", 1, 0)>>, "no") >>

BadWayFile ==
    << DataBlob(<<Group("node", 1, 0), Group("way", 2, 2)>>, "no"),
       DataBlob(<<Group("relation", 1, 0)>>, "no") >>

BadBlockFile ==
    << DataBlob(<<Group("node", 1, 0)>>, "block"),
       DataBlob(<<Group("way", 1, 0)>>, "no") >>

\* more data blobs than GOMAXPROCS workers take at once, the first one invalid
BusyFile ==
    << DataBlob(<<Group("way", 1, 1)>>, "no"),
       DataBlob(<<Group("node", 1, 0)>>, "no"),
       DataBlob(<<Group("node", 1, 0)>>, "no") >>

RecordLen(b) == PrefixLen + b.hlen + b.datasize

\* offset of record i; RecordStart(bs, Len(bs) + 1) is the length of the file
RECURSIVE RecordStart(_, _)
RecordStart(bs, i) ==
    IF i = 1 THEN 0 ELSE RecordStart(bs, i - 1) + RecordLen(bs[i - 1])

FileLen(bs) == RecordStart(bs, Len(bs) + 1)

RecordAt(bs, off) == CHOOSE i \in 1..Len(bs) : RecordStart(bs, i) = off

\* the parser settings: GOMAXPROCS workers on an unbuffered channel (0),
\* Workers workers on a channel of 2*Workers blobs, or a negative Workers,
\* for which make(chan Blob, z.Workers*2) panics
WorkerSettings == {-1, 0, 1, 2}

\* complete inputs under every worker setting; the well-formed file cut at
\* every byte under one worker
Inputs ==
    { [blobs |-> bs, len |-> FileLen(bs)] : bs \in {WellFormedFile, BadWayFile, BadBlockFile} }

WholeConfigs == { <<in, w>> : in \in Inputs, w \in WorkerSettings }

\* the file that keeps every worker busy, on the unbuffered channel
BusyConfigs == { <<[blobs |-> BusyFile, len |-> FileLen(BusyFile)], 0>> }

CutConfigs ==
    { <<[blobs |-> WellFormedFile, len |-> n], 1>> : n \in 0..FileLen(WellFormedFile) }

\* io.ReadFull of n bytes at offset off of an input of len bytes: io.EOF only
\* when no byte was read, io.ErrUnexpectedEOF after some but not all
ReadFull(off, len, n) ==
    LET avail == len - off
    IN IF n = 0 THEN [n |-> 0, err |-> "nil"]
       ELSE IF avail >= n THEN [n |-> n, err |-> "nil"]
       ELSE IF avail = 0 THEN [n |-> 0, err |-> "EOF"]
       ELSE [n |-> avail, err |-> "ErrUnexpectedEOF"]

\* Parser.blob: the next record at offset off. outcome "eof" is err == io.EOF,
\* "error" any other error, "nil" a Blob without Data, "data" an OSMData blob
BlobRead(in, off) ==
    LET r1 == ReadFull(off, in.len, PrefixLen)
    IN IF r1.err # "nil"
       THEN [outcome |-> IF r1.err = "EOF" THEN "eof" ELSE "error",
             rpos |-> off + r1.n, posAdd |-> 0, fb |-> 0]
       ELSE
       LET fb == RecordAt(in.blobs, off)
           b == in.blobs[fb]
           o2 == off + PrefixLen
           r2 == ReadFull(o2, in.len, b.hlen)
       IN IF r2.err # "nil"
          THEN [outcome |-> IF r2.err = "EOF" THEN "eof" ELSE "error",
                rpos |-> o2 + r2.n, posAdd |-> 0, fb |-> fb]
          ELSE
          LET o3 == o2 + b.hlen
              r3 == ReadFull(o3, in.len, b.datasize)
              add == PrefixLen + b.hlen
          IN IF r3.err # "nil"
             THEN [outcome |-> IF r3.err = "EOF" THEN "eof" ELSE "error",
                   rpos |-> o3 + r3.n, posAdd |-> add, fb |-> fb]
             ELSE IF b.datasize = 0 \/ b.typ # "OSMData"
             THEN [outcome |-> "nil", rpos |-> o3 + b.datasize, posAdd |-> add, fb |-> fb]
             ELSE [outcome |-> "data", rpos |-> o3 + b.datasize, posAdd |-> add, fb |-> fb]

----------------------------------------------------------------------------
(* Decoding one blob in a worker *)

\* the entities of group g, in file order
GroupEntities(g, n) == [k \in 1..n |-> <<g, k>>]

\* the loop over block.PrimitiveGroups: the entities passed to the callbacks
\* in fs, whether a decoder returned an error, and the kinds seen.  A dense
\* node group is validated before any of its nodes is delivered; ways and
\* relations are delivered one by one up to the first invalid one.
RECURSIVE DecodeGroups(_, _, _)
DecodeGroups(groups, g, fs) ==
    IF g > Len(groups)
    THEN [deliv |-> <<>>, err |-> FALSE, content |-> {}]
    ELSE LET grp == groups[g]
             active == grp.kind \in fs
             fails == active /\ grp.badAt > 0
             upto == IF grp.kind = "node" THEN 0 ELSE grp.badAt - 1
             out == IF ~active THEN <<>>
                    ELSE IF fails THEN SubSeq(GroupEntities(g, grp.n), 1, upto)
                    ELSE GroupEntities(g, grp.n)
         IN IF fails
            THEN [deliv |-> out, err |-> TRUE, content |-> {}]
            ELSE LET rest == DecodeGroups(groups, g + 1, fs)
                 IN [deliv |-> out \o rest.deliv,
                     err |-> rest.err,
                     content |-> {grp.kind} \cup rest.content]

\* the context test without its append: a cancellation leaves errs as it is
ObserveCancelDropped(es, cancelled) == es

\* if ctx.Err() != nil { errs = append(errs, ctx.Err()) }
ObserveCancel(es, cancelled) == IF cancelled THEN es \cup {"ctx"} ELSE es

----------------------------------------------------------------------------
(* Parser.Parse: one reader, the workers, the channel between them *)

NumCPU == 2     \* runtime.GOMAXPROCS(0)
MaxCalls == 2   \* Parse calls made on one Parser

NoBlob == [fb |-> 0, index |-> 0]

NoCancel == [at |-> FALSE, due |-> FALSE, early |-> FALSE, blocked |-> FALSE]

NumWorkers == IF zWorkers < 1 THEN NumCPU ELSE zWorkers

ChanCap == zWorkers * 2

\* the reader is in its select and the channel takes no blob: it is full, or
\* unbuffered with no worker in its receive
ReaderBlocked ==
    /\ reader.pc = "send"
    /\ IF ChanCap = 0
       THEN \A w \in DOMAIN worker : worker[w].pc # "recv"
       ELSE Len(blobs.queue) >= ChanCap

\* the OSMData blobs with a payload that lie wholly within the input
DataBlobs(in) ==
    { i \in 1..Len(in.blobs) :
        /\ in.blobs[i].typ = "OSMData" /\ in.blobs[i].datasize > 0
        /\ RecordStart(in.blobs, i + 1) <= in.len }

ParseConfig(c) ==
    /\ input = c[1]
    /\ zWorkers = c[2]
    /\ rpos = 0
    /\ zpos = 0
    /\ blobContents = <<>>
    /\ calls = 0
    /\ funcs = {}
    /\ ctxDone = FALSE
    /\ ctx2Done = FALSE
    /\ errs = {}
    /\ blobs = [queue |-> <<>>, closed |-> FALSE]
    /\ reader = [pc |-> "idle", index |-> 0, blob |-> NoBlob]
    /\ worker = <<>>
    /\ status = "idle"
    /\ result = {}
    /\ delivered = [i \in 1..Len(c[1].blobs) |-> <<>>]
    /\ handled = {}
    /\ skipped = {}
    /\ readData = {}
    /\ everDecoded = {}
    /\ startOff = 0
    /\ cancelAt = NoCancel

InitParse == \E c \in WholeConfigs \cup CutConfigs \cup BusyConfigs : ParseConfig(c)

IdleParse == ParseConfig(<<[blobs |-> <<>>, len |-> 0], 1>>)

\* Parse up to the start of the goroutines: the seek (only when Workers >= 1),
\* z.pos = 0, ctx2, the channel; make panics on a negative capacity
ParseStart(fs) ==
    /\ status \in {"idle", "returned"}
    /\ calls < MaxCalls
    /\ calls' = calls + 1
    /\ funcs' = fs
    /\ rpos' = IF zWorkers < 1 THEN rpos ELSE 0
    /\ startOff' = rpos'
    /\ zpos' = 0
    /\ status' = IF ChanCap < 0 THEN "panicked" ELSE "running"
    /\ ctxDone' = FALSE
    /\ ctx2Done' = FALSE
    /\ errs' = {}
    /\ blobs' = [queue |-> <<>>, closed |-> FALSE]
    /\ reader' = [pc |-> IF ChanCap < 0 THEN "idle" ELSE "check",
                  index |-> 0, blob |-> NoBlob]
    /\ worker' = IF ChanCap < 0 THEN <<>>
                 ELSE [w \in 1..NumWorkers |-> [pc |-> "recv", blob |-> NoBlob]]
    /\ delivered' = [i \in 1..Len(input.blobs) |-> <<>>]
    /\ handled' = {}
    /\ skipped' = {}
    /\ readData' = {}
    /\ cancelAt' = NoCancel
    /\ UNCHANGED <<input, zWorkers, blobContents, result, everDecoded, notParseVars>>

\* the caller cancels ctx, and ctx2 with it
CtxCancel ==
    /\ status = "running"
    /\ ~ctxDone
    /\ ctxDone' = TRUE
    /\ ctx2Done' = TRUE
    /\ cancelAt' =
         [at |-> TRUE,
          due |-> \/ reader.pc \in {"check", "send"}
                  \/ \E w \in DOMAIN worker : worker[w].pc = "got"
                  \/ /\ blobs.queue # <<>>
                     /\ \E w \in DOMAIN worker : worker[w].pc = "recv",
          early |-> DataBlobs(input) \ handled # {},
          blocked |-> cancelAt.blocked \/ (~ctx2Done /\ ReaderBlocked)]
    /\ UNCHANGED <<input, rpos, zWorkers, zpos, blobContents, calls, funcs, errs,
                   blobs, reader, worker, status, result, delivered, handled,
                   skipped, readData, everDecoded, startOff, notParseVars>>

\* top of BlobLoop: if ctx2.Err() != nil { ...; break }
ReaderCheck ==
    /\ status = "running"
    /\ reader.pc = "check"
    /\ IF ctx2Done
       THEN /\ errs' = ObserveCancel(errs, ctxDone)
            /\ reader' = [reader EXCEPT !.pc = "close"]
       ELSE /\ errs' = errs
            /\ reader' = [reader EXCEPT !.pc = "read"]
    /\ UNCHANGED <<input, rpos, zWorkers, zpos, blobContents, calls, funcs, ctxDone,
                   ctx2Done, blobs, worker, status, result, delivered, handled,
                   skipped, readData, everDecoded, startOff, cancelAt, notParseVars>>

\* blob, err := z.blob(bufHeader) and the branches on its result
ReaderRead ==
    /\ status = "running"
    /\ reader.pc = "read"
    /\ LET r == BlobRead(input, rpos)
       IN /\ rpos' = r.rpos
          /\ zpos' = zpos + r.posAdd
          /\ errs' = IF r.outcome = "error" THEN errs \cup {"frame"} ELSE errs
          /\ ctx2Done' = (ctx2Done \/ r.outcome = "error")
          /\ reader' =
               CASE r.outcome \in {"eof", "error"} -> [reader EXCEPT !.pc = "close"]
                 [] r.outcome = "nil" ->
                      [reader EXCEPT !.pc = "check", !.index = reader.index + 1]
                 [] r.outcome = "data" ->
                      [reader EXCEPT !.pc = "send",
                                     !.blob = [fb |-> r.fb, index |-> reader.index]]
          /\ readData' = IF r.outcome = "data" THEN readData \cup {r.fb} ELSE readData
    /\ UNCHANGED <<input, zWorkers, blobContents, calls, funcs, ctxDone, blobs,
                   worker, status, result, delivered, handled, skipped,
                   everDecoded, startOff, cancelAt, notParseVars>>

\* a select without the case <-ctx2.Done()
ReaderSelectDoneMissing == FALSE /\ UNCHANGED vars

\* select: case <-ctx2.Done()
ReaderSelectDone ==
    /\ status = "running"
    /\ reader.pc = "send"
    /\ ctx2Done
    /\ errs' = ObserveCancel(errs, ctxDone)
    /\ reader' = [reader EXCEPT !.pc = "close", !.blob = NoBlob]
    /\ UNCHANGED <<input, rpos, zWorkers, zpos, blobContents, calls, funcs, ctxDone,
                   ctx2Done, blobs, worker, status, result, delivered, handled,
                   skipped, readData, everDecoded, startOff, cancelAt, notParseVars>>

\* select: case blobs <- blob, then index++.  An unbuffered channel hands the
\* blob to a worker that is waiting in its receive.
ReaderSelectSend ==
    /\ status = "running"
    /\ reader.pc = "send"
    /\ IF ChanCap = 0
       THEN /\ \E w \in DOMAIN worker :
                 /\ worker[w].pc = "recv"
                 /\ worker' = [worker EXCEPT ![w] = [pc |-> "got", blob |-> reader.blob]]
            /\ blobs' = blobs
       ELSE /\ Len(blobs.queue) < ChanCap
            /\ blobs' = [blobs EXCEPT !.queue = Append(blobs.queue, reader.blob)]
            /\ worker' = worker
    /\ reader' = [pc |-> "check", index |-> reader.index + 1, blob |-> NoBlob]
    /\ UNCHANGED <<input, rpos, zWorkers, zpos, blobContents, calls, funcs, ctxDone,
                   ctx2Done, errs, status, result, delivered, handled,
                   skipped, readData, everDecoded, startOff, cancelAt, notParseVars>>

\* close(blobs)
ReaderClose ==
    /\ status = "running"
    /\ reader.pc = "close"
    /\ blobs' = [blobs EXCEPT !.closed = TRUE]
    /\ reader' = [reader EXCEPT !.pc = "wait"]
    /\ UNCHANGED <<input, rpos, zWorkers, zpos, blobContents, calls, funcs, ctxDone,
                   ctx2Done, errs, worker, status, result, delivered, handled,
                   skipped, readData, everDecoded, startOff, cancelAt, notParseVars>>

\* for blob := range blobs: the next queued blob, or the end of the loop when
\* the channel is closed and empty
WorkerRecv(w) ==
    /\ status = "running"
    /\ worker[w].pc = "recv"
    /\ IF blobs.queue # <<>>
       THEN /\ worker' = [worker EXCEPT ![w] = [pc |-> "got", blob |-> Head(blobs.queue)]]
            /\ blobs' = [blobs EXCEPT !.queue = Tail(blobs.queue)]
       ELSE /\ blobs.closed
            /\ worker' = [worker EXCEPT ![w] = [pc |-> "done", blob |-> NoBlob]]
            /\ blobs' = blobs
    /\ UNCHANGED <<input, rpos, zWorkers, zpos, blobContents, calls, funcs, ctxDone,
                   ctx2Done, errs, reader, status, result, delivered, handled,
                   skipped, readData, everDecoded, startOff, cancelAt, notParseVars>>

\* if ctx2.Err() != nil { ...; return }
WorkerCheck(w) ==
    /\ status = "running"
    /\ worker[w].pc = "got"
    /\ IF ctx2Done
       THEN /\ errs' = ObserveCancel(errs, ctxDone)
            /\ worker' = [worker EXCEPT ![w] = [pc |-> "done", blob |-> NoBlob]]
       ELSE /\ errs' = errs
            /\ worker' = [worker EXCEPT ![w].pc = "work"]
    /\ UNCHANGED <<input, rpos, zWorkers, zpos, blobContents, calls, funcs, ctxDone,
                   ctx2Done, blobs, reader, status, result, delivered, handled,
                   skipped, readData, everDecoded, startOff, cancelAt, notParseVars>>

\* the function literal of the worker: skip by fingerprint, or z.block and the
\* group loop, then the fingerprint; on error append, cancel() and return,
\* else add blob.datasize to z.pos
WorkerProcess(w) ==
    /\ status = "running"
    /\ worker[w].pc = "work"
    /\ LET b == worker[w].blob
           rec == input.blobs[b.fb]
           hasContent == b.index \in DOMAIN blobContents
           content == IF hasContent THEN blobContents[b.index] ELSE {}
           skip == hasContent /\ content \cap funcs = {}
           d == IF rec.bad = "block"
                THEN [deliv |-> <<>>, err |-> TRUE, content |-> {}]
                ELSE DecodeGroups(rec.groups, 1, funcs)
       IN IF skip
          THEN /\ skipped' = skipped \cup {b.fb}
               /\ handled' = handled \cup {b.fb}
               /\ zpos' = zpos + rec.datasize
               /\ worker' = [worker EXCEPT ![w] = [pc |-> "recv", blob |-> NoBlob]]
               /\ UNCHANGED <<delivered, errs, ctx2Done, blobContents, everDecoded, cancelAt>>
          ELSE /\ delivered' = [delivered EXCEPT ![b.fb] = delivered[b.fb] \o d.deliv]
               /\ IF d.err
                  THEN /\ errs' = errs \cup {"decode"}
                       /\ ctx2Done' = TRUE
                       /\ worker' = [worker EXCEPT ![w] = [pc |-> "done", blob |-> NoBlob]]
                       /\ cancelAt' = [cancelAt EXCEPT
                                          !.blocked = @ \/ (~ctx2Done /\ ReaderBlocked)]
                       /\ UNCHANGED <<handled, zpos, blobContents, everDecoded>>
                  ELSE /\ blobContents' =
                            IF hasContent THEN blobContents
                            ELSE [i \in (DOMAIN blobContents) \cup {b.index} |->
                                    IF i = b.index THEN content \cup d.content
                                    ELSE blobContents[i]]
                       /\ handled' = handled \cup {b.fb}
                       /\ everDecoded' = everDecoded \cup {b.fb}
                       /\ zpos' = zpos + rec.datasize
                       /\ worker' = [worker EXCEPT ![w] = [pc |-> "recv", blob |-> NoBlob]]
                       /\ UNCHANGED <<errs, ctx2Done, cancelAt>>
               /\ UNCHANGED skipped
    /\ UNCHANGED <<input, rpos, zWorkers, calls, funcs, ctxDone, blobs, reader,
                   status, result, readData, startOff, notParseVars>>

\* wg.Wait(), errors.Join(errs...) or nil, and the deferred cancel()
ParseReturn ==
    /\ status = "running"
    /\ reader.pc = "wait"
    /\ \A w \in DOMAIN worker : worker[w].pc = "done"
    /\ status' = "returned"
    /\ result' = errs
    /\ ctx2Done' = TRUE
    /\ reader' = [reader EXCEPT !.pc = "idle"]
    /\ UNCHANGED <<input, rpos, zWorkers, zpos, blobContents, calls, funcs, ctxDone,
                   errs, blobs, worker, delivered, handled,
                   skipped, readData, everDecoded, startOff, cancelAt, notParseVars>>

NextParse ==
    \/ \E fs \in SUBSET Kinds : ParseStart(fs)
    \/ CtxCancel
    \/ ReaderCheck
    \/ ReaderRead
    \/ ReaderSelectDone
    \/ ReaderSelectSend
    \/ ReaderClose
    \/ \E w \in DOMAIN worker : WorkerRecv(w)
    \/ \E w \in DOMAIN worker : WorkerCheck(w)
    \/ \E w \in DOMAIN worker : WorkerProcess(w)
    \/ ParseReturn

----------------------------------------------------------------------------
(* The primitive decoders: Parser.nodes, Parser.ways, Parser.relations, as  *)
(* the worker calls them for the groups of one block                        *)

MaxMsgs == 2     \* DenseNodes, Way and Relation messages decoded per block

\* lengths of the block's string table
StrLens == {1, 2}

\* packed lists of string indices, of member id deltas and of member types
IndexLists == {<<>>, <<0>>, <<1>>, <<0, 1>>}
MemidLists == {<<>>, <<5>>, <<5, 1>>}
TypeLists == {<<>>, <<0>>, <<3>>, <<1, 2>>}

\* the messages fed to the decoders; an absent field is an empty list or id 0
WayMsgs ==
    { [id |-> i, keys |-> k, vals |-> v] :
        i \in {0, 7}, k \in IndexLists, v \in IndexLists }

RelationMsgs ==
    { [id |-> i, keys |-> k, vals |-> v, roles |-> r, memids |-> mi, types |-> t] :
        i \in {0, 7}, k \in {<<>>, <<1>>}, v \in {<<>>, <<1>>},
        r \in IndexLists, mi \in MemidLists, t \in TypeLists }

DenseMsgs ==
    { [ids |-> a, lats |-> b, lons |-> c, ends |-> e] :
        a \in {<<>>, <<1>>, <<1, 1>>}, b \in {<<>>, <<3>>, <<3, 1>>},
        c \in {<<>>, <<4>>, <<4, 1>>}, e \in 0..2 }

\* the running sums of a list of deltas
RECURSIVE SumTo(_, _)
SumTo(list, k) == IF k = 0 THEN 0 ELSE SumTo(list, k - 1) + list[k]

Deltas(list) == [k \in 1..Len(list) |-> SumTo(list, k)]

\* the loops over a packed list of string indices: an error at the first
\* index that is not below the string-table length
IndexListFails(list, strLen) == \E i \in 1..Len(list) : strLen <= list[i]

\* the loop over types: an error at the first type above 2
TypeListFails(list) == \E i \in 1..Len(list) : 2 < list[i]

\* the check after the fields of a Way
WayInvalid(id, keys, vals) == id = 0 \/ Len(keys) # Len(vals)

\* the check after the fields of a Relation, without its comparison of the
\* role and type counts
RelationInvalidNoTypes(id, keys, vals, roles, refs, types) ==
    id = 0 \/ Len(keys) # Len(vals) \/ Len(roles) # Len(refs)

\* the check after the fields of a Relation
RelationInvalid(id, keys, vals, roles, refs, types) ==
    \/ id = 0
    \/ Len(keys) # Len(vals)
    \/ Len(roles) # Len(refs)
    \/ Len(roles) # Len(types)

\* the check after the fields of a DenseNodes
DenseInvalid(ids, lats, lons, ends) ==
    \/ Len(ids) # Len(lats)
    \/ Len(ids) # Len(lons)
    \/ (0 < ends /\ Len(ids) # ends)

\* one iteration of the loop of Parser.ways: the ways passed to fn, or an error
WayDecode(msg, strLen) ==
    IF IndexListFails(msg.keys, strLen) \/ IndexListFails(msg.vals, strLen)
    THEN [err |-> TRUE, out |-> <<>>]
    ELSE IF WayInvalid(msg.id, msg.keys, msg.vals)
    THEN [err |-> TRUE, out |-> <<>>]
    ELSE [err |-> FALSE,
          out |-> << [kind |-> "way", id |-> msg.id, keys |-> msg.keys, vals |-> msg.vals] >>]

\* one iteration of the loop of Parser.relations
RelationDecode(msg, strLen) ==
    IF \/ IndexListFails(msg.keys, strLen)
       \/ IndexListFails(msg.vals, strLen)
       \/ IndexListFails(msg.roles, strLen)
       \/ TypeListFails(msg.types)
    THEN [err |-> TRUE, out |-> <<>>]
    ELSE IF RelationInvalid(msg.id, msg.keys, msg.vals, msg.roles, Deltas(msg.memids), msg.types)
    THEN [err |-> TRUE, out |-> <<>>]
    ELSE [err |-> FALSE,
          out |-> << [kind |-> "relation", id |-> msg.id, keys |-> msg.keys,
                      vals |-> msg.vals, roles |-> msg.roles,
                      refs |-> Deltas(msg.memids), types |-> msg.types] >>]

\* Parser.nodes on one DenseNodes message: all its nodes, or an error and none
DenseDecode(msg) ==
    IF DenseInvalid(msg.ids, msg.lats, msg.lons, msg.ends)
    THEN [err |-> TRUE, out |-> <<>>]
    ELSE [err |-> FALSE,
          out |-> [k \in 1..Len(msg.ids) |->
                     [kind |-> "node", id |-> Deltas(msg.ids)[k],
                      lat |-> Deltas(msg.lats)[k], lon |-> Deltas(msg.lons)[k],
                      of |-> msg]]]

InitDecode ==
    /\ dStrings \in StrLens
    /\ dFuncs \in SUBSET Kinds
    /\ dOut = <<>>
    /\ dErr = FALSE
    /\ dBad = {}
    /\ dCount = 0
    /\ dDone = FALSE
    /\ dResult = {}

IdleDecode ==
    /\ dStrings = 1
    /\ dFuncs = {}
    /\ dOut = <<>>
    /\ dErr = FALSE
    /\ dBad = {}
    /\ dCount = 0
    /\ dDone = FALSE
    /\ dResult = {}

\* what a message of the declared kind must satisfy to be handed to a callback
ValidWay(e, strLen) ==
    /\ e.id # 0
    /\ Len(e.keys) = Len(e.vals)
    /\ \A i \in 1..Len(e.keys) : e.keys[i] < strLen
    /\ \A i \in 1..Len(e.vals) : e.vals[i] < strLen

ValidMembers(roles, n, types, strLen) ==
    /\ Len(roles) = n
    /\ Len(types) = n
    /\ \A i \in 1..Len(roles) : roles[i] < strLen
    /\ \A i \in 1..Len(types) : types[i] \in 0..2

ValidDense(msg) == Len(msg.ids) = Len(msg.lats) /\ Len(msg.ids) = Len(msg.lons)

\* the group loop of the worker on one group message: decoded only if the
\* callback of its kind is non-nil; an error ends the worker's function
DecodeStep(kind, r, bad) ==
    /\ ~dDone
    /\ ~dErr
    /\ dCount < MaxMsgs
    /\ dCount' = dCount + 1
    /\ dBad' = IF bad THEN dBad \cup {kind} ELSE dBad
    /\ IF kind \in dFuncs
       THEN dOut' = dOut \o r.out /\ dErr' = r.err
       ELSE UNCHANGED <<dOut, dErr>>
    /\ UNCHANGED <<dStrings, dFuncs, dDone, dResult, notDecodeVars>>

DecodeDense(msg) == DecodeStep("node", DenseDecode(msg), ~ValidDense(msg))

DecodeWay(msg) == DecodeStep("way", WayDecode(msg, dStrings), ~ValidWay(msg, dStrings))

DecodeRelation(msg) ==
    DecodeStep("relation", RelationDecode(msg, dStrings),
               ~(ValidWay(msg, dStrings)
                 /\ ValidMembers(msg.roles, Len(msg.memids), msg.types, dStrings)))

\* the worker's function returns; its error is appended to errs and joined
\* into the result of Parse
DecodeReturn ==
    /\ ~dDone
    /\ dDone' = TRUE
    /\ dResult' = IF dErr THEN {"decode"} ELSE {}
    /\ UNCHANGED <<dStrings, dFuncs, dOut, dErr, dBad, dCount, notDecodeVars>>

NextDecode ==
    \/ \E msg \in DenseMsgs : DecodeDense(msg)
    \/ \E msg \in WayMsgs : DecodeWay(msg)
    \/ \E msg \in RelationMsgs : DecodeRelation(msg)
    \/ DecodeReturn

----------------------------------------------------------------------------
(* Geometry helpers of the extractor.  Coordinates are pairs <<X, Y>> on a  *)
(* grid of multiples of 12, on which every clipped coordinate is integral   *)

\* a / b for b # 0 and b dividing a
Div(a, b) == IF b < 0 THEN (-a) \div (-b) ELSE a \div b

\* n1/d1 < n2/d2
FracLess(n1, d1, n2, d2) ==
    IF d1 * d2 > 0 THEN n1 * d2 < n2 * d1 ELSE n1 * d2 > n2 * d1

\* left 1, right 2, bottom 4, top 8
cohenSutherlandOutcode(bounds, c) ==
    (IF c[1] <= bounds[1][1] THEN 1 ELSE IF bounds[2][1] <= c[1] THEN 2 ELSE 0)
    + (IF c[2] <= bounds[1][2] THEN 4 ELSE IF bounds[2][2] <= c[2] THEN 8 ELSE 0)

clipCoord(bounds, inner, outer, outerOutcode) ==
    LET dx == outer[1] - inner[1]
        dy == outer[2] - inner[2]
        AtX(bx) == <<bx, inner[2] + Div((bx - inner[1]) * dy, dx)>>
        AtY(by) == <<inner[1] + Div((by - inner[2]) * dx, dy), by>>
        anchor == CASE outerOutcode = 5 -> bounds[1]
                    [] outerOutcode = 9 -> <<bounds[1][1], bounds[2][2]>>
                    [] outerOutcode = 6 -> <<bounds[2][1], bounds[1][2]>>
                    [] OTHER -> bounds[2]
    IN CASE outerOutcode = 1 -> AtX(bounds[1][1])
         [] outerOutcode = 2 -> AtX(bounds[2][1])
         [] outerOutcode = 4 -> AtY(bounds[1][2])
         [] outerOutcode = 8 -> AtY(bounds[2][2])
         [] outerOutcode \in {5, 9, 6, 10} ->
              IF FracLess(anchor[1] - inner[1], dx, anchor[2] - inner[2], dy)
              THEN <<inner[1] + Div((anchor[1] - inner[1]) * dx, dx), anchor[2]>>
              ELSE <<anchor[1], inner[2] + Div((anchor[2] - inner[2]) * dy, dy)>>
         [] OTHER -> outer

\* the sum of the shoelace formula: twice the signed area of the ring
RECURSIVE ShoelaceSum(_, _)
ShoelaceSum(coords, i) ==
    IF i > Len(coords) THEN 0
    ELSE LET p == coords[i]
             q == coords[(i % Len(coords)) + 1]
         IN (p[1] * q[2] - p[2] * q[1]) + ShoelaceSum(coords, i + 1)

isCCW(coords) == 0 <= ShoelaceSum(coords, 1)

\* returns a new slice; coords itself is left as it is
reverseOrientation(coords) ==
    [i \in 1..Len(coords) |-> coords[Len(coords) + 1 - i]]

\* hangs when neither end matches
RECURSIVE appendCoords(_, _)
appendCoords(a, b) ==
    IF 0 < Len(a) /\ 1 < Len(b)
    THEN IF b[1] = a[Len(a)] THEN appendCoords(SubSeq(a, 1, Len(a) - 1), b)
         ELSE IF b[2] = a[Len(a)] THEN appendCoords(a, SubSeq(b, 3, Len(b)))
         ELSE [hang |-> TRUE, out |-> <<>>]
    ELSE [hang |-> FALSE, out |-> a \o b]

\* the inner loop of connectRelationWays for way j, currently chained into
\* k; i = 0; continue resumes the scan at the second way
RECURSIVE ConnectScan(_, _, _, _, _, _, _)
ConnectScan(c, start, end, k, i, startConnected, endConnected) ==
    IF c.hang \/ i >= k THEN c
    ELSE IF ~c.handled[i] /\ ~endConnected /\ c.endpoints[i][1] = end
    THEN LET r == appendCoords(c.wayCoords[k], c.wayCoords[i])
             c2 == [c EXCEPT !.wayCoords[i] = r.out, !.handled[k] = TRUE, !.hang = r.hang]
         IN IF startConnected THEN c2
            ELSE ConnectScan(c2, start, end, i, 2, startConnected, TRUE)
    ELSE IF ~c.handled[i] /\ ~startConnected /\ c.endpoints[i][2] = start
    THEN LET r == appendCoords(c.wayCoords[i], c.wayCoords[k])
             c2 == [c EXCEPT !.wayCoords[i] = r.out, !.handled[k] = TRUE, !.hang = r.hang]
         IN IF endConnected THEN c2
            ELSE ConnectScan(c2, start, end, i, 2, TRUE, endConnected)
    ELSE ConnectScan(c, start, end, k, i + 1, startConnected, endConnected)

\* the outer loop of connectRelationWays from way j on
RECURSIVE ConnectFrom(_, _, _)
ConnectFrom(c, ways, j) ==
    IF c.hang \/ j > Len(ways) THEN c
    ELSE LET way == ways[j]
         IN IF way.First = way.Last
            THEN ConnectFrom(
                   [c EXCEPT !.polygons = IF 2 < Len(way.Coords)
                                          THEN Append(@, way.Coords) ELSE @,
                             !.handled[j] = TRUE],
                   ways, j + 1)
            ELSE LET c1 == [c EXCEPT !.wayCoords[j] = way.Coords]
                     c2 == ConnectScan(c1, way.First, way.Last, j, 1, FALSE, FALSE)
                 IN ConnectFrom([c2 EXCEPT !.endpoints[j] = <<way.First, way.Last>>],
                                ways, j + 1)

RECURSIVE UnhandledContours(_, _)
UnhandledContours(c, i) ==
    IF i > Len(c.wayCoords) THEN <<>>
    ELSE (IF ~c.handled[i] /\ 2 < Len(c.wayCoords[i]) THEN <<c.wayCoords[i]>> ELSE <<>>)
         \o UnhandledContours(c, i + 1)

connectRelationWays(ways) ==
    LET c0 == [polygons |-> <<>>,
               handled |-> [i \in 1..Len(ways) |-> FALSE],
               wayCoords |-> [i \in 1..Len(ways) |-> <<>>],
               endpoints |-> [i \in 1..Len(ways) |-> <<0, 0>>],
               hang |-> FALSE]
        c == ConnectFrom(c0, ways, 1)
    IN [hang |-> c.hang,
        out |-> IF c.hang THEN <<>> ELSE c.polygons \o UnhandledContours(c, 1)]

----------------------------------------------------------------------------
(* Parser.Extract with a nil filter: the node pass, the way pass and the    *)
(* relation pass, each callback as one step                                 *)

MaxWays == 2    \* ways in the input

ExtractBounds == << <<0, 0>>, <<36, 36>> >>

\* the nodes of the input: three inside the bounds, one to the right of
\* them, one on their top edge, one beyond their bottom-left corner
NodeCoord ==
    (1 :> <<12, 12>>) @@ (2 :> <<24, 12>>) @@ (3 :> <<24, 24>>)
    @@ (4 :> <<48, 24>>) @@ (5 :> <<12, 36>>) @@ (6 :> <<-12, -12>>)

NodeIds == DOMAIN NodeCoord

InsideIds == { n \in NodeIds : cohenSutherlandOutcode(ExtractBounds, NodeCoord[n]) = 0 }

\* the refs of a way: up to three refs, or a ring of three nodes
RefSeqs(ids) ==
    { <<a>> : a \in ids }
    \cup { <<a, b>> : a \in ids, b \in ids }
    \cup { <<a, b, c>> : a \in ids, b \in ids, c \in ids }
    \cup { r \in { <<a, b, c, a>> : a \in ids, b \in ids, c \in ids } :
               r[1] # r[2] /\ r[1] # r[3] /\ r[2] # r[3] }

\* way 1 is any of these, the closed ones tagged as an area or not
RingWays ==
    { [id |-> 1, refs |-> r, area |-> a] : r \in RefSeqs(NodeIds), a \in BOOLEAN }
    \ { w \in [id : {1}, refs : RefSeqs(NodeIds), area : {TRUE}] :
           w.refs[1] # w.refs[Len(w.refs)] }

\* the further ways are open ways between two inside nodes, for a relation to join
JoinWays ==
    { [id |-> i, refs |-> r, area |-> FALSE] :
        i \in 2..MaxWays,
        r \in { q \in RefSeqs(InsideIds) : Len(q) = 2 /\ q[1] # q[2] } }

WayInputs == RingWays \cup JoinWays

Members ==
    { [type |-> "way", id |-> i, role |-> r] : i \in 1..MaxWays, r \in {"outer", "inner"} }
    \cup { [type |-> "node", id |-> 1, role |-> ""] }

RelationInputs ==
    { [id |-> 1, members |-> ms] :
        ms \in { <<a>> : a \in Members } \cup { <<a, b>> : a \in Members, b \in Members } }

\* the loop over way.Refs: drops the nodes outside of the bounds, keeps the
\* crossings and the corners passed
RECURSIVE ClipRefs(_, _, _, _)
ClipRefs(refs, i, nodes, st) ==
    IF i > Len(refs) THEN st.coords
    ELSE IF refs[i] \notin DOMAIN nodes THEN ClipRefs(refs, i + 1, nodes, st)
    ELSE
    LET node == nodes[refs[i]]
        outcode == node.Outcode
        n == Len(st.coords)
        corner == outcode \in {5, 9, 6, 10}
        coord ==
            IF outcode # 0 /\ st.prevOutcode # 0 /\ outcode # st.prevOutcode /\ corner
            THEN CASE outcode = 5 -> ExtractBounds[1]
                   [] outcode = 9 -> <<ExtractBounds[1][1], ExtractBounds[2][2]>>
                   [] outcode = 6 -> <<ExtractBounds[2][1], ExtractBounds[1][2]>>
                   [] OTHER -> ExtractBounds[2]
            ELSE node.Coord
        coords ==
            IF outcode = 0
            THEN Append(IF st.prevOutcode # 0 /\ st.prevOutcode # 15
                        THEN Append(st.coords,
                                    clipCoord(ExtractBounds, coord, st.prevCoord, st.prevOutcode))
                        ELSE st.coords,
                        coord)
            ELSE IF st.prevOutcode = 0
            THEN Append(st.coords, clipCoord(ExtractBounds, st.prevCoord, coord, outcode))
            ELSE IF outcode # st.prevOutcode /\ corner /\ (n = 0 \/ st.coords[n] # coord)
            THEN IF 1 < n /\ st.coords[n - 1] = coord
                 THEN SubSeq(st.coords, 1, n - 1)
                 ELSE Append(st.coords, coord)
            ELSE st.coords
    IN ClipRefs(refs, i + 1, nodes,
                [coords |-> coords, prevCoord |-> coord, prevOutcode |-> outcode])

\* coords of a way after the loop: nil (<<>>) if too short, closed if the way is
WayCoords(way, nodes) ==
    LET coords == ClipRefs(way.refs, 1, nodes,
                           [coords |-> <<>>, prevCoord |-> <<0, 0>>, prevOutcode |-> 15])
        closed == way.refs[1] = way.refs[Len(way.refs)]
    IN IF (closed /\ Len(coords) < 3) \/ (~closed /\ Len(coords) < 2) THEN <<>>
       ELSE IF closed /\ coords[1] # coords[Len(coords)] THEN Append(coords, coords[1])
       ELSE coords

\* the geometry of a way: for a closed area way, reverseOrientation is called
\* on a ring that is not CCW, and its result is not used
WayGeometry(way, coords) ==
    LET closed == way.refs[1] = way.refs[Len(way.refs)]
        unused == IF ~isCCW(coords) THEN reverseOrientation(coords) ELSE coords
    IN IF closed /\ way.area
       THEN [type |-> "way", id |-> way.id, points |-> <<>>, lines |-> <<>>,
             polygons |-> << [Coords |-> coords, Fill |-> TRUE] >>]
       ELSE [type |-> "way", id |-> way.id, points |-> <<>>, lines |-> <<coords>>,
             polygons |-> <<>>]

\* the ways of the members with a role, in member order
RECURSIVE RoleWays(_, _, _, _)
RoleWays(members, i, role, ways) ==
    IF i > Len(members) THEN <<>>
    ELSE (IF members[i].type = "way" /\ members[i].role = role /\ members[i].id \in DOMAIN ways
          THEN <<ways[members[i].id]>> ELSE <<>>)
         \o RoleWays(members, i + 1, role, ways)

RECURSIVE MemberPoints(_, _, _)
MemberPoints(members, i, nodes) ==
    IF i > Len(members) THEN <<>>
    ELSE (IF members[i].type = "node" /\ members[i].id \in DOMAIN nodes
             /\ nodes[members[i].id].Outcode = 0
          THEN <<nodes[members[i].id].Coord>> ELSE <<>>)
         \o MemberPoints(members, i + 1, nodes)

\* the contours of one role turned into polygons and line strings
RECURSIVE RoleShapes(_, _, _)
RoleShapes(contours, i, role) ==
    IF i > Len(contours) THEN [lines |-> <<>>, polygons |-> <<>>]
    ELSE LET coords == contours[i]
             rest == RoleShapes(contours, i + 1, role)
             fill == role # "inner"
         IN IF ~(1 < Len(coords)) THEN rest
            ELSE IF 2 < Len(coords) /\ coords[1] = coords[Len(coords)]
            THEN [rest EXCEPT !.polygons =
                    << [Coords |-> IF fill # isCCW(coords)
                                   THEN reverseOrientation(coords) ELSE coords,
                        Fill |-> fill] >> \o @]
            ELSE [rest EXCEPT !.lines = <<coords>> \o @]

\* the loop over the roles in the order given, then the sort by Fill
RECURSIVE RelationShapes(_, _, _, _)
RelationShapes(members, roles, i, ways) ==
    IF i > Len(roles) THEN [hang |-> FALSE, lines |-> <<>>, polygons |-> <<>>]
    ELSE LET cw == connectRelationWays(RoleWays(members, 1, roles[i], ways))
             these == RoleShapes(cw.out, 1, roles[i])
             rest == RelationShapes(members, roles, i + 1, ways)
         IN IF cw.hang THEN [hang |-> TRUE, lines |-> <<>>, polygons |-> <<>>]
            ELSE [hang |-> rest.hang,
                  lines |-> these.lines \o rest.lines,
                  polygons |-> these.polygons \o rest.polygons]

FillFirst(polygons) ==
    SelectSeq(polygons, LAMBDA p : p.Fill) \o SelectSeq(polygons, LAMBDA p : ~p.Fill)

\* the orders in which the range over the map of roles can run
RoleOrdersIn(members, ways) ==
    LET roles == { members[i].role : i \in { k \in 1..Len(members) :
                                               /\ members[k].type = "way"
                                               /\ members[k].id \in DOMAIN ways } }
    IN { o \in [1..Cardinality(roles) -> roles] :
           \A a, b \in 1..Cardinality(roles) : a # b => o[a] # o[b] }

RoleOrders(members) == RoleOrdersIn(members, xWays)

InitExtract ==
    /\ xPhase = "nodes"
    /\ xFile \in { NodeIds, NodeIds \ {3} }
    /\ xNodes = <<>>
    /\ xWays = <<>>
    /\ xGeoms = {}

IdleExtract ==
    /\ xPhase = "idle"
    /\ xFile = {}
    /\ xNodes = <<>>
    /\ xWays = <<>>
    /\ xGeoms = {}

\* nodeFunc: every node is kept with its outcode; a node inside the bounds
\* becomes a point geometry
NodeFunc(id) ==
    /\ xPhase = "nodes"
    /\ id \in xFile \ DOMAIN xNodes
    /\ LET coord == NodeCoord[id]
           outcode == cohenSutherlandOutcode(ExtractBounds, coord)
       IN /\ xNodes' = [i \in (DOMAIN xNodes) \cup {id} |->
                          IF i = id THEN [Coord |-> coord, Outcode |-> outcode]
                          ELSE xNodes[i]]
          /\ xGeoms' = IF outcode = 0
                       THEN xGeoms \cup { [type |-> "node", id |-> id, points |-> <<coord>>,
                                           lines |-> <<>>, polygons |-> <<>>] }
                       ELSE xGeoms
    /\ UNCHANGED <<xPhase, xFile, xWays, notExtractVars>>

\* the node pass returns once Parse has delivered every node of the input
NodePassDone ==
    /\ xPhase = "nodes"
    /\ DOMAIN xNodes = xFile
    /\ xPhase' = "ways"
    /\ UNCHANGED <<xFile, xNodes, xWays, xGeoms, notExtractVars>>

\* wayFunc
WayFunc(way) ==
    /\ xPhase = "ways"
    /\ way.id \notin DOMAIN xWays
    /\ LET coords == WayCoords(way, xNodes)
       IN /\ xGeoms' = IF coords # <<>> THEN xGeoms \cup {WayGeometry(way, coords)}
                       ELSE xGeoms
          /\ xWays' = [i \in (DOMAIN xWays) \cup {way.id} |->
                         IF i = way.id
                         THEN [Coords |-> coords, First |-> way.refs[1],
                               Last |-> way.refs[Len(way.refs)]]
                         ELSE xWays[i]]
    /\ UNCHANGED <<xPhase, xFile, xNodes, notExtractVars>>

WayPassDone ==
    /\ xPhase = "ways"
    /\ xPhase' = "relations"
    /\ UNCHANGED <<xFile, xNodes, xWays, xGeoms, notExtractVars>>

\* relationFunc; "hung" when connectRelationWays does not return
RelationFunc(relation, roles) ==
    /\ xPhase = "relations"
    /\ LET shapes == RelationShapes(relation.members, roles, 1, xWays)
           points == MemberPoints(relation.members, 1, xNodes)
       IN IF shapes.hang
          THEN xPhase' = "hung" /\ xGeoms' = xGeoms
          ELSE /\ xPhase' = "done"
               /\ xGeoms' =
                    IF 0 < Len(points) \/ 0 < Len(shapes.lines) \/ 0 < Len(shapes.polygons)
                    THEN xGeoms \cup { [type |-> "relation", id |-> relation.id,
                                        points |-> points, lines |-> shapes.lines,
                                        polygons |-> FillFirst(shapes.polygons)] }
                    ELSE xGeoms
    /\ UNCHANGED <<xFile, xNodes, xWays, notExtractVars>>

RelationPassDone ==
    /\ xPhase = "relations"
    /\ xPhase' = "done"
    /\ UNCHANGED <<xFile, xNodes, xWays, xGeoms, notExtractVars>>

NextExtract ==
    \/ \E id \in NodeIds : NodeFunc(id)
    \/ NodePassDone
    \/ \E way \in WayInputs : WayFunc(way)
    \/ WayPassDone
    \/ \E relation \in RelationInputs : \E roles \in RoleOrders(relation.members) :
          RelationFunc(relation, roles)
    \/ RelationPassDone

----------------------------------------------------------------------------
(* connectRelationWays on the member ways of one role of a relation        *)

MaxChain == 3   \* member ways of one role

\* the nodes the ways run between, and a coordinate between two of them
ChainIds == 1..(MaxChain + 1)

ChainCoord(n) == <<12 * n, 12>>

MidCoord(a, b) == <<6 * (a + b), 24>>

\* the endpoint pairs of the open ways: any two of the first MaxChain nodes,
\* and the step to the last node
ChainEnds ==
    { e \in ChainIds \X ChainIds :
        /\ e[1] # e[2]
        /\ (e[1] <= MaxChain /\ e[2] <= MaxChain) \/ e = <<MaxChain, MaxChain + 1>> }

\* what wayFunc can have stored for a way from node a to node b: both ends,
\* both ends and a coordinate between them, no coordinates (the way lies
\* outside of the bounds), or one end clipped away
WholeWay(a, b) == [First |-> a, Last |-> b, Coords |-> <<ChainCoord(a), ChainCoord(b)>>]

ViaWay(a, b) ==
    [First |-> a, Last |-> b, Coords |-> <<ChainCoord(a), MidCoord(a, b), ChainCoord(b)>>]

OutsideWay(a, b) == [First |-> a, Last |-> b, Coords |-> <<>>]

EndCutWay(a, b) == [First |-> a, Last |-> b, Coords |-> <<ChainCoord(a), MidCoord(a, b)>>]

StartCutWay(a, b) == [First |-> a, Last |-> b, Coords |-> <<MidCoord(a, b), ChainCoord(b)>>]

RingWay(a, b) ==
    [First |-> a, Last |-> a,
     Coords |-> <<ChainCoord(a), MidCoord(a, b), ChainCoord(b), ChainCoord(a)>>]

ChainWays ==
    UNION { { WholeWay(e[1], e[2]), ViaWay(e[1], e[2]), OutsideWay(e[1], e[2]),
              EndCutWay(e[1], e[2]), StartCutWay(e[1], e[2]) } : e \in ChainEnds }
    \cup { RingWay(1, 2), RingWay(2, 3) }

ChainInputs == UNION { [1..n -> ChainWays] : n \in 1..MaxChain }

InitConnect ==
    /\ cWays \in ChainInputs
    /\ cPhase = "call"
    /\ cOut = <<>>

IdleConnect ==
    /\ cWays = <<>>
    /\ cPhase = "idle"
    /\ cOut = <<>>

\* contours := connectRelationWays(relationWays); "hung" when it does not return
ConnectCall ==
    /\ cPhase = "call"
    /\ LET r == connectRelationWays(cWays)
       IN IF r.hang
          THEN cPhase' = "hung" /\ cOut' = cOut
          ELSE cPhase' = "returned" /\ cOut' = r.out
    /\ UNCHANGED <<cWays, notConnectVars>>

NextConnect == ConnectCall
----------------------------------------------------------------------------
(* The callbacks of Extract with a filter, as the workers of Parse run     *)
(* them side by side: their mutexes and their accesses to the shared maps   *)

Mutexes == {"mu1", "mu2", "mu3"}

SelectedMaps == {"selectedNodes", "selectedWays", "selectedRelations"}

Passes == <<"selectRelations", "selectWays", "nodes", "ways", "relations">>

Lock(mu) == [op |-> "Lock", mu |-> mu]
Unlock(mu) == [op |-> "Unlock", mu |-> mu]
RLock(mu) == [op |-> "RLock", mu |-> mu]
RUnlock(mu) == [op |-> "RUnlock", mu |-> mu]
Write(map) == [op |-> "write", map |-> map]
Read(map) == [op |-> "read", map |-> map]

\* the first relationFunc: a relation the filter selects, with way members,
\* node members or both
SelectRelationsCallbacks ==
    { <<Lock("mu1"), Write("selectedRelations"), Unlock("mu1")>> \o ws \o ns :
        ws \in { <<>>, <<Lock("mu2"), Write("selectedWays"), Unlock("mu2")>> },
        ns \in { <<>>, <<Lock("mu3"), Write("selectedNodes"), Unlock("mu3")>> } }
    \ { <<Lock("mu1"), Write("selectedRelations"), Unlock("mu1")>> }

\* the first wayFunc: a way the filter selects; a way it does not select, for
\* which selectedWays.Has(way.ID) is asked, that is a member of a selected
\* relation or is not
SelectWaysCallbacks ==
    { <<Lock("mu1"), Write("selectedWays"), Unlock("mu1"),
        Lock("mu2"), Write("selectedNodes"), Unlock("mu2")>>,
      <<Read("selectedWays"), Lock("mu2"), Write("selectedNodes"), Unlock("mu2")>>,
      <<Read("selectedWays")>> }

\* nodeFunc: selectedNodes.Has and nodes[node.ID] under mu1, the geometry
\* under mu2
NodesCallbacks ==
    { <<Lock("mu1"), Read("selectedNodes")>> \o st \o <<Unlock("mu1")>> \o gs :
        st \in { <<>>, <<Write("nodes")>> },
        gs \in { <<>>, <<Lock("mu2"), Write("geometries"), Unlock("mu2")>> } }

\* the second wayFunc: selectedWays.Get under mu1.RLock; for a selected way
\* the nodes of its refs, the geometry under mu2, ways[way.ID] under mu3
WaysCallbacks ==
    { <<RLock("mu1"), Read("selectedWays"), RUnlock("mu1")>> \o rest :
        rest \in { <<>>,
                   <<Read("nodes"), Lock("mu3"), Write("ways"), Unlock("mu3")>>,
                   <<Read("nodes"), Lock("mu2"), Write("geometries"), Unlock("mu2"),
                     Lock("mu3"), Write("ways"), Unlock("mu3")>> } }

\* the second relationFunc: selectedRelations.Get under mu1.RLock; for a
\* selected relation its ways and nodes, the geometry under mu2
RelationsCallbacks ==
    { <<RLock("mu1"), Read("selectedRelations"), RUnlock("mu1")>> \o rest :
        rest \in { <<>>,
                   <<Read("ways"), Read("nodes")>>,
                   <<Read("ways"), Read("nodes"),
                     Lock("mu2"), Write("geometries"), Unlock("mu2")>> } }

Callbacks(pass) ==
    CASE pass = "selectRelations" -> SelectRelationsCallbacks
      [] pass = "selectWays" -> SelectWaysCallbacks
      [] pass = "nodes" -> NodesCallbacks
      [] pass = "ways" -> WaysCallbacks
      [] pass = "relations" -> RelationsCallbacks

LockWorkers == 1..NumCPU

IdleWorker == [prog |-> <<>>, pc |-> 0, in |-> FALSE]

FreeMutex == [writer |-> 0, readers |-> {}]

\* the mutexes worker w holds, locked or read-locked
HeldBy(w) == { mu \in Mutexes : lMutex[mu].writer = w \/ w \in lMutex[mu].readers }

InitLocks ==
    /\ lPass = 1
    /\ lWorker = [w \in LockWorkers |-> IdleWorker]
    /\ lMutex = [mu \in Mutexes |-> FreeMutex]
    /\ lUsed = {}

IdleLocks ==
    /\ lPass = 0
    /\ lWorker = <<>>
    /\ lMutex = [mu \in Mutexes |-> FreeMutex]
    /\ lUsed = {}

\* the worker calls the callback of the pass on the next entity of its blob
CallbackStart(w, prog) ==
    /\ lPass \in DOMAIN Passes
    /\ lWorker[w].prog = <<>>
    /\ prog \in Callbacks(Passes[lPass])
    /\ lWorker' = [lWorker EXCEPT ![w] = [prog |-> prog, pc |-> 1, in |-> FALSE]]
    /\ UNCHANGED <<lPass, lMutex, lUsed, notLockVars>>

\* the next statement of the callback on worker w
NextOp(w) == lWorker[w].prog[lWorker[w].pc]

AtOp(w, ops) ==
    /\ lWorker[w].prog # <<>>
    /\ NextOp(w).op \in ops

\* the callback on w after its statement: at the next one, or returned
Advanced(w) ==
    IF lWorker[w].pc = Len(lWorker[w].prog) THEN IdleWorker
    ELSE [lWorker[w] EXCEPT !.pc = @ + 1, !.in = FALSE]

\* mu.Lock() waits for the mutex to be free, mu.RLock() for it to have no writer
LockStep(w) ==
    /\ AtOp(w, {"Lock", "RLock"})
    /\ LET mu == NextOp(w).mu
       IN /\ lMutex[mu].writer = 0
          /\ IF NextOp(w).op = "Lock"
             THEN /\ lMutex[mu].readers = {}
                  /\ lMutex' = [lMutex EXCEPT ![mu].writer = w]
             ELSE lMutex' = [lMutex EXCEPT ![mu].readers = @ \cup {w}]
    /\ lWorker' = [lWorker EXCEPT ![w] = Advanced(w)]
    /\ UNCHANGED <<lPass, lUsed, notLockVars>>

\* mu.Unlock(), mu.RUnlock()
UnlockStep(w) ==
    /\ AtOp(w, {"Unlock", "RUnlock"})
    /\ LET mu == NextOp(w).mu
       IN lMutex' = IF NextOp(w).op = "Unlock"
                    THEN [lMutex EXCEPT ![mu].writer = 0]
                    ELSE [lMutex EXCEPT ![mu].readers = @ \ {w}]
    /\ lWorker' = [lWorker EXCEPT ![w] = Advanced(w)]
    /\ UNCHANGED <<lPass, lUsed, notLockVars>>

\* the callback enters Put, Get or Has of a map (or the map statement)
AccessBegin(w) ==
    /\ AtOp(w, {"read", "write"})
    /\ ~lWorker[w].in
    /\ lWorker' = [lWorker EXCEPT ![w].in = TRUE]
    /\ lUsed' = lUsed \cup { [map |-> NextOp(w).map, mode |-> NextOp(w).op,
                              held |-> HeldBy(w)] }
    /\ UNCHANGED <<lPass, lMutex, notLockVars>>

\* and leaves it
AccessEnd(w) ==
    /\ AtOp(w, {"read", "write"})
    /\ lWorker[w].in
    /\ lWorker' = [lWorker EXCEPT ![w] = Advanced(w)]
    /\ UNCHANGED <<lPass, lMutex, lUsed, notLockVars>>

\* Parse returns when every worker has returned; Extract goes on to its next pass
PassReturn ==
    /\ lPass \in DOMAIN Passes
    /\ \A w \in LockWorkers : lWorker[w].prog = <<>>
    /\ lPass' = IF lPass = Len(Passes) THEN 0 ELSE lPass + 1
    /\ lUsed' = {}
    /\ UNCHANGED <<lWorker, lMutex, notLockVars>>

NextLocks ==
    \/ \E w \in LockWorkers :
          \E prog \in UNION { Callbacks(Passes[i]) : i \in DOMAIN Passes } :
              CallbackStart(w, prog)
    \/ \E w \in LockWorkers : LockStep(w)
    \/ \E w \in LockWorkers : UnlockStep(w)
    \/ \E w \in LockWorkers : AccessBegin(w)
    \/ \E w \in LockWorkers : AccessEnd(w)
    \/ PassReturn
----------------------------------------------------------------------------
(* Parser.Extract with a filter: the two passes that select the dependents, *)
(* then the node pass, the way pass and the relation pass                   *)

Classes == {0, 1}

\* the nodes of the input, and those the filter may give a class
SelectNodeIds == {1, 2, 3, 4}

ClassedNodeIds == {1, 4}

\* the ways of the input: a ring inside the bounds, a way that leaves the
\* bounds with two and one with three coordinates left
SelectWayFile ==
    (1 :> [id |-> 1, refs |-> <<1, 2, 3, 1>>, area |-> FALSE])
    @@ (2 :> [id |-> 2, refs |-> <<3, 4>>, area |-> FALSE])
    @@ (3 :> [id |-> 3, refs |-> <<1, 2, 4>>, area |-> FALSE])

SelectMembers ==
    { [type |-> "way", id |-> i, role |-> "outer"] : i \in DOMAIN SelectWayFile }
    \cup { [type |-> "node", id |-> i, role |-> ""] : i \in {2, 4} }
    \cup { [type |-> "relation", id |-> 2, role |-> ""] }

\* the relation of the input, its tags passing Tags.IsArea or not
SelectRelations ==
    { [id |-> 1, members |-> ms, area |-> a] :
        ms \in { <<b>> : b \in SelectMembers }
               \cup { <<b, c>> : b \in SelectMembers, c \in SelectMembers },
        a \in BOOLEAN }

Filters ==
    { [node |-> [i \in SelectNodeIds |-> IF i \in ns THEN 1 ELSE 0],
       way |-> ws, relation |-> r] :
        ns \in SUBSET ClassedNodeIds,
        ws \in [DOMAIN SelectWayFile -> Classes],
        r \in Classes }

\* Put: the map with key id set to class
PutIn(map, id, class) ==
    [i \in (DOMAIN map) \cup {id} |-> IF i = id THEN class ELSE map[i]]

\* Put(id, 0) for every id of the list, in order
RECURSIVE PutAll(_, _, _)
PutAll(map, ids, i) ==
    IF i > Len(ids) THEN map ELSE PutAll(PutIn(map, ids[i], 0), ids, i + 1)

MemberIds(members, type) ==
    LET of == SelectSeq(members, LAMBDA mb : mb.type = type)
    IN [i \in 1..Len(of) |-> of[i].id]

InitSelect ==
    /\ fFilter \in Filters
    /\ fRelation \in SelectRelations
    /\ fPhase = "selectRelations"
    /\ fSeen = {}
    /\ selectedNodes = <<>>
    /\ selectedWays = <<>>
    /\ selectedRelations = <<>>
    /\ fNodes = <<>>
    /\ fWays = <<>>
    /\ fGeoms = {}

IdleSelect ==
    /\ fFilter = <<>>
    /\ fRelation = <<>>
    /\ fPhase = "idle"
    /\ fSeen = {}
    /\ selectedNodes = <<>>
    /\ selectedWays = <<>>
    /\ selectedRelations = <<>>
    /\ fNodes = <<>>
    /\ fWays = <<>>
    /\ fGeoms = {}

\* the first relationFunc: a relation with a class is selected when it has
\* way or node members, and these become dependents
SelectRelationFunc ==
    /\ fPhase = "selectRelations"
    /\ fRelation.id \notin fSeen
    /\ fSeen' = fSeen \cup {fRelation.id}
    /\ LET class == fFilter.relation
           nodes == MemberIds(fRelation.members, "node")
           ways == MemberIds(fRelation.members, "way")
       IN IF class # 0
          THEN /\ selectedRelations' =
                    IF 0 < Len(ways) \/ 0 < Len(nodes)
                    THEN PutIn(selectedRelations, fRelation.id, class)
                    ELSE selectedRelations
               /\ selectedWays' = PutAll(selectedWays, ways, 1)
               /\ selectedNodes' = PutAll(selectedNodes, nodes, 1)
          ELSE UNCHANGED <<selectedRelations, selectedWays, selectedNodes>>
    /\ UNCHANGED <<fFilter, fRelation, fPhase, fNodes, fWays, fGeoms, notSelectVars>>

\* a first wayFunc that looks at the class of the way only: the refs of a
\* dependent way are left out of selectedNodes
SelectWayFuncOwnClassOnly(id) ==
    /\ fPhase = "selectWays"
    /\ id \in (DOMAIN SelectWayFile) \ fSeen
    /\ fSeen' = fSeen \cup {id}
    /\ LET way == SelectWayFile[id]
           class == fFilter.way[id]
       IN IF class # 0
          THEN /\ selectedWays' = PutIn(selectedWays, id, class)
               /\ selectedNodes' = PutAll(selectedNodes, way.refs, 1)
          ELSE UNCHANGED <<selectedWays, selectedNodes>>
    /\ UNCHANGED <<fFilter, fRelation, fPhase, selectedRelations, fNodes, fWays, fGeoms,
                   notSelectVars>>

\* the first wayFunc: a way with a class is selected, and the refs of a
\* selected or dependent way become dependents
SelectWayFunc(id) ==
    /\ fPhase = "selectWays"
    /\ id \in (DOMAIN SelectWayFile) \ fSeen
    /\ fSeen' = fSeen \cup {id}
    /\ LET way == SelectWayFile[id]
           class == fFilter.way[id]
       IN IF class # 0 \/ id \in DOMAIN selectedWays
          THEN /\ selectedWays' = IF class # 0 THEN PutIn(selectedWays, id, class)
                                  ELSE selectedWays
               /\ selectedNodes' = PutAll(selectedNodes, way.refs, 1)
          ELSE UNCHANGED <<selectedWays, selectedNodes>>
    /\ UNCHANGED <<fFilter, fRelation, fPhase, selectedRelations, fNodes, fWays, fGeoms,
                   notSelectVars>>

\* nodeFunc with a filter
FilterNodeFunc(id) ==
    /\ fPhase = "nodes"
    /\ id \in SelectNodeIds \ fSeen
    /\ fSeen' = fSeen \cup {id}
    /\ LET class == fFilter.node[id]
           coord == NodeCoord[id]
           outcode == cohenSutherlandOutcode(ExtractBounds, coord)
       IN /\ fNodes' = IF id \in DOMAIN selectedNodes
                       THEN PutIn(fNodes, id,
                                  [Coord |-> coord, Class |-> class, Outcode |-> outcode])
                       ELSE fNodes
          /\ fGeoms' = IF class # 0 /\ outcode = 0
                       THEN fGeoms \cup { [class |-> class,
                                           geom |-> [type |-> "node", id |-> id,
                                                     points |-> <<coord>>, lines |-> <<>>,
                                                     polygons |-> <<>>]] }
                       ELSE fGeoms
    /\ UNCHANGED <<fFilter, fRelation, fPhase, selectedNodes, selectedWays,
                   selectedRelations, fWays, notSelectVars>>

\* wayFunc with a filter: a way in selectedWays is stored, with a class it
\* is a geometry as well
FilterWayFunc(id) ==
    /\ fPhase = "ways"
    /\ id \in (DOMAIN SelectWayFile) \ fSeen
    /\ fSeen' = fSeen \cup {id}
    /\ LET way == SelectWayFile[id]
           selected == id \in DOMAIN selectedWays
           class == IF selected THEN selectedWays[id] ELSE 0
           coords == WayCoords(way, fNodes)
       IN IF selected /\ 0 < Len(way.refs)
          THEN /\ fGeoms' = IF class # 0 /\ coords # <<>>
                            THEN fGeoms \cup { [class |-> class,
                                                geom |-> WayGeometry(way, coords)] }
                            ELSE fGeoms
               /\ fWays' = PutIn(fWays, id,
                                 [Coords |-> coords, First |-> way.refs[1],
                                  Last |-> way.refs[Len(way.refs)]])
          ELSE UNCHANGED <<fGeoms, fWays>>
    /\ UNCHANGED <<fFilter, fRelation, fPhase, selectedNodes, selectedWays,
                   selectedRelations, fNodes, notSelectVars>>

\* relationFunc with a filter; "hung" when connectRelationWays does not return
FilterRelationFunc(roles) ==
    /\ fPhase = "relations"
    /\ fRelation.id \notin fSeen
    /\ roles \in RoleOrdersIn(fRelation.members, fWays)
    /\ fSeen' = fSeen \cup {fRelation.id}
    /\ LET class == IF fRelation.id \in DOMAIN selectedRelations
                    THEN selectedRelations[fRelation.id] ELSE 0
           shapes == RelationShapes(fRelation.members, roles, 1, fWays)
           points == MemberPoints(fRelation.members, 1, fNodes)
       IN IF class # 0 /\ 0 < Len(fRelation.members)
          THEN IF shapes.hang
               THEN fPhase' = "hung" /\ fGeoms' = fGeoms
               ELSE /\ fPhase' = fPhase
                    /\ fGeoms' =
                         IF 0 < Len(points) \/ 0 < Len(shapes.lines)
                            \/ 0 < Len(shapes.polygons)
                         THEN fGeoms \cup { [class |-> class,
                                             geom |-> [type |-> "relation",
                                                       id |-> fRelation.id,
                                                       points |-> points,
                                                       lines |-> shapes.lines,
                                                       polygons |->
                                                           FillFirst(shapes.polygons)]] }
                         ELSE fGeoms
          ELSE UNCHANGED <<fPhase, fGeoms>>
    /\ UNCHANGED <<fFilter, fRelation, selectedNodes, selectedWays, selectedRelations,
                   fNodes, fWays, notSelectVars>>

\* the entities the pass has to deliver
PassEntities(phase) ==
    CASE phase \in {"selectRelations", "relations"} -> {fRelation.id}
      [] phase \in {"selectWays", "ways"} -> DOMAIN SelectWayFile
      [] phase = "nodes" -> SelectNodeIds
      [] OTHER -> {}

\* the pass after this one: the way pass and the relation pass are left out
\* when nothing is selected for them
NextPhase(phase) ==
    LET relations == IF 0 < Cardinality(DOMAIN selectedRelations)
                     THEN "relations" ELSE "done"
    IN CASE phase = "selectRelations" -> "selectWays"
         [] phase = "selectWays" -> "nodes"
         [] phase = "nodes" -> IF 0 < Cardinality(DOMAIN selectedWays)
                               THEN "ways" ELSE relations
         [] phase = "ways" -> relations
         [] OTHER -> "done"

\* z.Parse of the pass returns once every entity has been delivered
SelectPassDone ==
    /\ fPhase \in {"selectRelations", "selectWays", "nodes", "ways", "relations"}
    /\ fSeen = PassEntities(fPhase)
    /\ fPhase' = NextPhase(fPhase)
    /\ fSeen' = {}
    /\ UNCHANGED <<fFilter, fRelation, selectedNodes, selectedWays, selectedRelations,
                   fNodes, fWays, fGeoms, notSelectVars>>

NextSelect ==
    \/ SelectRelationFunc
    \/ \E id \in DOMAIN SelectWayFile : SelectWayFunc(id)
    \/ \E id \in SelectNodeIds : FilterNodeFunc(id)
    \/ \E id \in DOMAIN SelectWayFile : FilterWayFunc(id)
    \/ \E roles \in UNION { [1..n -> {"outer"}] : n \in 0..1 } : FilterRelationFunc(roles)
    \/ SelectPassDone
----------------------------------------------------------------------------
(* readVarint and skipField.  A uint64 is the sequence of its ten base-128  *)
(* digits, lowest first; the tenth digit is bit 63                          *)

MaxVarintLen == 10    \* the branches of readVarint

MaxBufLen == 11       \* bytes in a buffer

Zero64 == [i \in 1..10 |-> 0]

\* the digits brought back into range from digit i on with carry c: the
\* value modulo 2^64
RECURSIVE Carry(_, _, _)
Carry(v, i, c) ==
    IF i > 10 THEN v
    ELSE LET t == v[i] + c
             base == IF i = 10 THEN 2 ELSE 128
         IN IF t \in 0..(base - 1)
            THEN [v EXCEPT ![i] = t]
            ELSE Carry([v EXCEPT ![i] = t % base], i + 1, (t - (t % base)) \div base)

\* v + (y << 7*(i-1)) modulo 2^64, y negative for a subtraction
AddAt(v, i, y) == Carry([v EXCEPT ![i] = @ + y], i, 0)

FromNat(n) == AddAt(Zero64, 1, n)

\* the branch of readVarint for byte i (counted from 0), v as left by the
\* branches before it
RECURSIVE readVarintFrom(_, _, _)
readVarintFrom(b, i, v) ==
    IF Len(b) <= i THEN <<Zero64, 0>>
    ELSE LET y == b[i + 1]
             v2 == AddAt(v, i + 1, y)
         IN IF i = MaxVarintLen - 1
            THEN IF y < 2 THEN <<v2, 10>> ELSE <<Zero64, 0>>
            ELSE IF y < 128 THEN <<v2, i + 1>>
            ELSE readVarintFrom(b, i + 1, AddAt(v2, i + 1, -128))

\* a readVarint whose last branch returns whatever the 10th byte is
readVarintTenthUnchecked(b) ==
    IF Len(b) >= 10 /\ (\A i \in 1..9 : b[i] >= 128) /\ b[10] \in 2..127
    THEN <<readVarintFrom([b EXCEPT ![10] = b[10] % 2], 0, Zero64)[1], 10>>
    ELSE readVarintFrom(b, 0, Zero64)

readVarint(b) == readVarintFrom(b, 0, Zero64)

\* the loop of case 0; 0 when it runs to its end without a return
RECURSIVE skipVarintFrom(_, _)
skipVarintFrom(buf, i) ==
    IF ~(i < 9) THEN 0
    ELSE IF Len(buf) <= i \/ buf[i + 1] >= 128 THEN i + 1
    ELSE skipVarintFrom(buf, i + 1)

\* the int returned, as the uint64 of the same bits
skipField(buf, wireType) ==
    CASE wireType = 0 -> LET n == skipVarintFrom(buf, 0)
                         IN FromNat(IF n = 0 THEN 10 ELSE n)
      [] wireType = 1 -> FromNat(8)
      [] wireType = 2 -> LET r == readVarint(buf) IN AddAt(r[1], 1, r[2])
      [] wireType = 5 -> FromNat(4)
      [] OTHER -> FromNat(0)

\* the number of bytes of the shortest varint of x
Digits(x) ==
    IF \A i \in 1..10 : x[i] = 0 THEN 1
    ELSE CHOOSE n \in 1..10 : x[n] # 0 /\ \A i \in (n + 1)..10 : x[i] = 0

\* the canonical encoding: seven bits a byte, lowest first, bit 7 set on
\* all but the last
EncodeVarint(x) ==
    [i \in 1..Digits(x) |-> IF i < Digits(x) THEN x[i] + 128 ELSE x[i]]

\* the values encoded: every digit 0 or 127, or a single digit 1
Values ==
    { x \in [1..10 -> {0, 127}] : x[10] = 0 }
    \cup { [x EXCEPT ![10] = 1] : x \in { y \in [1..10 -> {0, 127}] : y[10] = 0 } }
    \cup { [Zero64 EXCEPT ![i] = 1] : i \in 1..10 }

\* the encoding of x: as it is, cut short, followed by more bytes, and
\* longer than it need be
BuffersOf(x) ==
    LET enc == EncodeVarint(x)
        more == [enc EXCEPT ![Len(enc)] = @ + 128]
    IN {enc}
       \cup { SubSeq(enc, 1, k) : k \in 0..(Len(enc) - 1) }
       \cup { enc \o <<t>> : t \in {0, 8, 128} }
       \cup { more \o <<t>> : t \in {0, 2} }

\* runs of bytes with bit 7 set, with and without a last byte
Runs ==
    { [i \in 1..k |-> c] : k \in 0..MaxBufLen, c \in {128, 255} }
    \cup { [i \in 1..k |-> c] \o <<t>> :
             k \in 0..(MaxBufLen - 1), c \in {128, 255}, t \in {0, 1, 2, 127} }

WireTypes == 0..7

InitVarint ==
    /\ \/ vX \in Values /\ vBuf \in BuffersOf(vX)
       \/ vX = Zero64 /\ vBuf \in Runs
    /\ vCall = "none"
    /\ vWire = 0
    /\ vOut = <<Zero64, 0>>

IdleVarint ==
    /\ vX = Zero64
    /\ vBuf = <<>>
    /\ vCall = "idle"
    /\ vWire = 0
    /\ vOut = <<Zero64, 0>>

ReadVarintCall ==
    /\ vCall = "none"
    /\ vCall' = "readVarint"
    /\ vOut' = readVarint(vBuf)
    /\ UNCHANGED <<vX, vBuf, vWire, notVarintVars>>

SkipFieldCall(wireType) ==
    /\ vCall = "none"
    /\ vCall' = "skipField"
    /\ vWire' = wireType
    /\ vOut' = <<skipField(vBuf, wireType), 0>>
    /\ UNCHANGED <<vX, vBuf, notVarintVars>>

NextVarint ==
    \/ ReadVarintCall
    \/ \E wireType \in WireTypes : SkipFieldCall(wireType)
----------------------------------------------------------------------------
(* The clipping loop of wayFunc on a way of two nodes, one inside the       *)
(* bounds and one outside                                                   *)

ClipGrid == { <<12 * i, 12 * j>> : i \in -1..4, j \in -1..4 }

InsideCoords == { c \in ClipGrid : cohenSutherlandOutcode(ExtractBounds, c) = 0 }

OutsideCoords == ClipGrid \ InsideCoords

InitClip ==
    /\ kInner \in InsideCoords
    /\ kOuter \in OutsideCoords
    /\ kDir \in {"out", "in"}
    /\ kCoords = <<>>
    /\ kDone = FALSE

IdleClip ==
    /\ kInner = <<0, 0>>
    /\ kOuter = <<0, 0>>
    /\ kDir = "idle"
    /\ kCoords = <<>>
    /\ kDone = FALSE

\* the loop over the refs of the way, the two nodes being in the node table
ClipWay ==
    /\ kDir \in {"out", "in"}
    /\ ~kDone
    /\ LET nodes == (1 :> [Coord |-> kInner,
                           Outcode |-> cohenSutherlandOutcode(ExtractBounds, kInner)])
                    @@ (2 :> [Coord |-> kOuter,
                              Outcode |-> cohenSutherlandOutcode(ExtractBounds, kOuter)])
           refs == IF kDir = "out" THEN <<1, 2>> ELSE <<2, 1>>
       IN kCoords' = ClipRefs(refs, 1, nodes,
                              [coords |-> <<>>, prevCoord |-> <<0, 0>>, prevOutcode |-> 15])
    /\ kDone' = TRUE
    /\ UNCHANGED <<kInner, kOuter, kDir, notClipVars>>

NextClip == ClipWay
----------------------------------------------------------------------------
(* The byte buffers of z.blobPool on their way from the reader through the  *)
(* channel to a worker and back into the pool.  A buffer is a number from  *)
(* 1 on, 0 is no buffer                                                     *)

MaxBufs == 3    \* buffers made with make([]byte, n)

PoolWorkers == 1..NumCPU

PoolChanCap == 2 * NumCPU

\* bag operations on the pool
PoolPut(pool, b) == [pool EXCEPT ![b] = @ + 1]

PoolTake(pool, b) == [pool EXCEPT ![b] = @ - 1]

Pooled(pool) == { b \in DOMAIN pool : pool[b] > 0 }

IdlePoolWorker == [pc |-> "recv", data |-> 0, type |-> 0, buf |-> 0]

InitPool ==
    /\ pPool = [b \in 1..MaxBufs |-> 0]
    /\ pMade = 0
    /\ pReader = [pc |-> "get", buf |-> 0]
    /\ pChan = <<>>
    /\ pWorker = [w \in PoolWorkers |-> IdlePoolWorker]

IdlePool ==
    /\ pPool = <<>>
    /\ pMade = 0
    /\ pReader = [pc |-> "idle", buf |-> 0]
    /\ pChan = <<>>
    /\ pWorker = <<>>

\* z.blob: buf = z.blobPool.Get() gives a buffer of the pool that is large
\* enough for the blob
BlobGetPooled(b) ==
    /\ pReader.pc = "get"
    /\ b \in Pooled(pPool)
    /\ pPool' = PoolTake(pPool, b)
    /\ pReader' = [pc |-> "read", buf |-> b]
    /\ UNCHANGED <<pMade, pChan, pWorker, notPoolVars>>

\* z.blob: the pool gives nil or a buffer that is too small, which is let
\* go, and buf = make([]byte, datasize)
BlobGetMade(drop) ==
    /\ pReader.pc = "get"
    /\ pMade < MaxBufs
    /\ drop \in Pooled(pPool) \cup {0}
    /\ pPool' = IF drop = 0 THEN pPool ELSE PoolTake(pPool, drop)
    /\ pMade' = pMade + 1
    /\ pReader' = [pc |-> "read", buf |-> pMade + 1]
    /\ UNCHANGED <<pChan, pWorker, notPoolVars>>

\* z.blob has filled buf with io.ReadFull: a data blob of the type raw (1)
\* or zlib (3), whose Data is a part of buf, goes into the channel
BlobSend(type) ==
    /\ pReader.pc = "read"
    /\ Len(pChan) < PoolChanCap
    /\ pChan' = Append(pChan, [data |-> pReader.buf, type |-> type])
    /\ pReader' = [pc |-> "get", buf |-> 0]
    /\ UNCHANGED <<pPool, pMade, pWorker, notPoolVars>>

\* the blob is no data blob or the read failed: buf is let go
BlobDrop ==
    /\ pReader.pc = "read"
    /\ pReader' = [pc |-> "get", buf |-> 0]
    /\ UNCHANGED <<pPool, pMade, pChan, pWorker, notPoolVars>>

\* for blob := range blobs
PoolWorkerRecv(w) ==
    /\ pWorker[w].pc = "recv"
    /\ pChan # <<>>
    /\ pWorker' = [pWorker EXCEPT ![w] = [pc |-> "block", data |-> pChan[1].data,
                                          type |-> pChan[1].type, buf |-> 0]]
    /\ pChan' = Tail(pChan)
    /\ UNCHANGED <<pPool, pMade, pReader, notPoolVars>>

\* the blob is skipped by its fingerprint, or z.block fails before it has
\* put anything back
PoolWorkerSkip(w) ==
    /\ pWorker[w].pc \in {"block", "inflate"}
    /\ pWorker' = [pWorker EXCEPT ![w] = IdlePoolWorker]
    /\ UNCHANGED <<pPool, pMade, pReader, pChan, notPoolVars>>

\* a case 1 that puts blob.Data back as case 3 does
BlockRawPutsData(w) ==
    /\ pWorker[w].pc = "block"
    /\ pWorker[w].type = 1
    /\ pPool' = PoolPut(pPool, pWorker[w].data)
    /\ pWorker' = [pWorker EXCEPT ![w] = [pc |-> "decode", data |-> 0, type |-> 1,
                                          buf |-> pWorker[w].data]]
    /\ UNCHANGED <<pMade, pReader, pChan, notPoolVars>>

\* z.block, case 1: buf = blob.Data
BlockRaw(w) ==
    /\ pWorker[w].pc = "block"
    /\ pWorker[w].type = 1
    /\ pWorker' = [pWorker EXCEPT ![w] = [pc |-> "decode", data |-> 0, type |-> 1,
                                          buf |-> pWorker[w].data]]
    /\ UNCHANGED <<pPool, pMade, pReader, pChan, notPoolVars>>

\* z.block, case 3: buf = z.blobPool.Get() gives a buffer of the pool that
\* is large enough
BlockZlibGetPooled(w, b) ==
    /\ pWorker[w].pc = "block"
    /\ pWorker[w].type = 3
    /\ b \in Pooled(pPool)
    /\ pPool' = PoolTake(pPool, b)
    /\ pWorker' = [pWorker EXCEPT ![w] = [@ EXCEPT !.pc = "inflate", !.buf = b]]
    /\ UNCHANGED <<pMade, pReader, pChan, notPoolVars>>

\* z.block, case 3: buf is made, by make([]byte, blob.RawSize) or by io.ReadAll
BlockZlibGetMade(w, drop) ==
    /\ pWorker[w].pc = "block"
    /\ pWorker[w].type = 3
    /\ pMade < MaxBufs
    /\ drop \in Pooled(pPool) \cup {0}
    /\ pPool' = IF drop = 0 THEN pPool ELSE PoolTake(pPool, drop)
    /\ pMade' = pMade + 1
    /\ pWorker' = [pWorker EXCEPT ![w] = [@ EXCEPT !.pc = "inflate", !.buf = pMade + 1]]
    /\ UNCHANGED <<pReader, pChan, notPoolVars>>

\* z.block, case 3: blob.Data has been inflated into buf;
\* z.blobPool.Put(blob.Data)
BlockZlibPut(w) ==
    /\ pWorker[w].pc = "inflate"
    /\ pPool' = PoolPut(pPool, pWorker[w].data)
    /\ pWorker' = [pWorker EXCEPT ![w] = [@ EXCEPT !.pc = "decode", !.data = 0]]
    /\ UNCHANGED <<pMade, pReader, pChan, notPoolVars>>

\* the block is parsed and the callbacks run on entities whose strings are
\* parts of buf
PoolWorkerDecode(w) ==
    /\ pWorker[w].pc = "decode"
    /\ pWorker' = [pWorker EXCEPT ![w] = [@ EXCEPT !.pc = "decoded"]]
    /\ UNCHANGED <<pPool, pMade, pReader, pChan, notPoolVars>>

\* z.blobPool.Put(buf), or an error of the block or of a decoder before it
PoolWorkerDone(w, err) ==
    /\ pWorker[w].pc = "decoded"
    /\ pPool' = IF err THEN pPool ELSE PoolPut(pPool, pWorker[w].buf)
    /\ pWorker' = [pWorker EXCEPT ![w] = IdlePoolWorker]
    /\ UNCHANGED <<pMade, pReader, pChan, notPoolVars>>

NextPool ==
    \/ \E b \in 1..MaxBufs : BlobGetPooled(b)
    \/ \E drop \in 0..MaxBufs : BlobGetMade(drop)
    \/ \E type \in {1, 3} : BlobSend(type)
    \/ BlobDrop
    \/ \E w \in PoolWorkers : PoolWorkerRecv(w)
    \/ \E w \in PoolWorkers : PoolWorkerSkip(w)
    \/ \E w \in PoolWorkers : BlockRaw(w)
    \/ \E w \in PoolWorkers : \E b \in 1..MaxBufs : BlockZlibGetPooled(w, b)
    \/ \E w \in PoolWorkers : \E drop \in 0..MaxBufs : BlockZlibGetMade(w, drop)
    \/ \E w \in PoolWorkers : BlockZlibPut(w)
    \/ \E w \in PoolWorkers : PoolWorkerDecode(w)
    \/ \E w \in PoolWorkers : \E err \in BOOLEAN : PoolWorkerDone(w, err)

\* ---------------------------------------------------------------------
\* Parser.Stats: the relation part (part_002 690-873)
\* ---------------------------------------------------------------------

\* const MaxRelationDepth = 16 (part_002 542)
MaxRelationDepth == 16

\* math.MaxInt, the value relationDepth returns at the cap; the largest
\* integer of the model stands for it
MathMaxInt == 2147483647

\* the largest number of relation-typed members in a file
MaxMembers == 3

StatsRelIds == {1, 2, 3, 4}

NoParents == [id \in StatsRelIds |-> <<>>]

\* the files: which relations exist, and the relation-typed members of each,
\* in the order of relation.Members; a member id may name no relation, and
\* no relation lists the same member twice
MemberLists ==
    {q \in UNION {[1..n -> StatsRelIds \X StatsRelIds] : n \in 0..MaxMembers} :
        \A i, j \in 1..Len(q) : q[i] = q[j] => i = j}

RECURSIVE MembersOf(_, _)
MembersOf(edges, r) ==
    IF edges = <<>> THEN <<>>
    ELSE IF Head(edges)[1] = r
         THEN <<Head(edges)[2]>> \o MembersOf(Tail(edges), r)
         ELSE MembersOf(Tail(edges), r)

StatsFiles ==
    {[r \in ex |-> MembersOf(edges, r)] :
        <<ex, edges>> \in
            {p \in (SUBSET StatsRelIds) \X MemberLists :
                \A i \in 1..Len(p[2]) : p[2][i][1] \in p[1]}}

ZeroStats ==
    [NumRelations |-> 0, MissingRelationRelations |-> 0,
     NumRecursiveRelations |-> 0, NumRelationDepths |-> <<>>,
     RelationRelations |-> 0]

InitStats ==
    /\ tFile \in StatsFiles
    /\ tTodo = DOMAIN tFile
    /\ relationIDs = {}
    /\ relationRelationIDs = {}
    /\ relationParents = NoParents
    /\ stats = ZeroStats
    /\ tIter = {}
    /\ tPhase = "parse"
    /\ tCounted = [id \in StatsRelIds |-> -1]
    /\ tDeepest = 0

IdleStats ==
    /\ tFile = <<>>
    /\ tTodo = {}
    /\ relationIDs = {}
    /\ relationRelationIDs = {}
    /\ relationParents = NoParents
    /\ stats = ZeroStats
    /\ tIter = {}
    /\ tPhase = "idle"
    /\ tCounted = [id \in StatsRelIds |-> -1]
    /\ tDeepest = 0

\* the loop of relationFunc over relation.Members, for the members of type
\* relation: relationParents[member.ID] = append(relationParents[member.ID], relation.ID)
RECURSIVE AppendParents(_, _, _)
AppendParents(parents, members, id) ==
    IF members = <<>> THEN parents
    ELSE AppendParents(
             [parents EXCEPT ![Head(members)] = Append(@, id)],
             Tail(members), id)

SeqRange(q) == {q[i] : i \in 1..Len(q)}

\* relationFunc of Stats; the workers call it in any order, its updates are
\* made under mu4 and mu6
StatsRelationFunc(id) ==
    /\ tPhase = "parse"
    /\ id \in tTodo
    /\ tTodo' = tTodo \ {id}
    /\ stats' = [stats EXCEPT !.NumRelations = @ + 1]
    /\ relationIDs' = relationIDs \cup {id}
    /\ relationParents' = AppendParents(relationParents, tFile[id], id)
    /\ relationRelationIDs' = relationRelationIDs \cup SeqRange(tFile[id])
    /\ UNCHANGED <<tFile, tIter, tPhase, tCounted, tDeepest, notStatsVars>>

\* z.Parse has returned nil; relationRelationIDs.Iterate starts
StatsParsed ==
    /\ tPhase = "parse"
    /\ tTodo = {}
    /\ tPhase' = "iterate"
    /\ tIter' = relationRelationIDs
    /\ UNCHANGED <<tFile, tTodo, relationIDs, relationRelationIDs,
                   relationParents, stats, tCounted, tDeepest, notStatsVars>>

\* relationDepth with the cap answering Depth, not math.MaxInt
RECURSIVE relationDepthCapAsDepth(_, _, _)
RECURSIVE CapAsDepthOver(_, _, _, _, _)
relationDepthCapAsDepth(id, parents, Depth) ==
    IF MaxRelationDepth <= Depth THEN Depth
    ELSE CapAsDepthOver(parents[id], 1, parents, Depth, Depth)

CapAsDepthOver(ps, i, parents, Depth, depth) ==
    IF i > Len(ps) THEN depth
    ELSE LET d == relationDepthCapAsDepth(ps[i], parents, Depth + 1)
         IN  CapAsDepthOver(ps, i + 1, parents, Depth,
                            IF depth < d THEN d ELSE depth)

RECURSIVE relationDepth(_, _, _)
RECURSIVE DepthOverParents(_, _, _, _, _)
relationDepth(id, parents, Depth) ==
    IF MaxRelationDepth <= Depth THEN MathMaxInt
    ELSE DepthOverParents(parents[id], 1, parents, Depth, Depth)

\* for _, p := range parents[id], from the i-th parent on, with the depth so far
DepthOverParents(ps, i, parents, Depth, depth) ==
    IF i > Len(ps) THEN depth
    ELSE LET d == relationDepth(ps[i], parents, Depth + 1)
         IN  DepthOverParents(ps, i + 1, parents, Depth,
                              IF depth < d THEN d ELSE depth)

\* ghost: the largest Depth any call of relationDepth(id, parents, Depth)
\* and of the calls it makes is entered with
RECURSIVE DeepestCall(_, _, _)
RECURSIVE DeepestOver(_, _, _, _, _)
DeepestCall(id, parents, Depth) ==
    IF MaxRelationDepth <= Depth THEN Depth
    ELSE DeepestOver(parents[id], 1, parents, Depth, Depth)

DeepestOver(ps, i, parents, Depth, deepest) ==
    IF i > Len(ps) THEN deepest
    ELSE LET d == DeepestCall(ps[i], parents, Depth + 1)
         IN  DeepestOver(ps, i + 1, parents, Depth,
                         IF deepest < d THEN d ELSE deepest)

\* for len(stats.NumRelationDepths) <= depth { append 0 }
RECURSIVE PadDepths(_, _)
PadDepths(q, depth) ==
    IF Len(q) <= depth THEN PadDepths(Append(q, 0), depth) ELSE q

\* the callback of relationRelationIDs.Iterate for one id
StatsIterate(id) ==
    /\ tPhase = "iterate"
    /\ id \in tIter
    /\ tIter' = tIter \ {id}
    /\ IF id \notin relationIDs
       THEN /\ stats' = [stats EXCEPT !.MissingRelationRelations = @ + 1]
            /\ UNCHANGED <<tCounted, tDeepest>>
       ELSE LET depth == relationDepth(id, relationParents, 0)
                deep == DeepestCall(id, relationParents, 0)
            IN  /\ tCounted' = [tCounted EXCEPT ![id] = depth]
                /\ tDeepest' = IF tDeepest < deep THEN deep ELSE tDeepest
                /\ IF depth = MathMaxInt
                   THEN stats' = [stats EXCEPT !.NumRecursiveRelations = @ + 1]
                   ELSE stats' = [stats EXCEPT !.NumRelationDepths =
                                     [PadDepths(@, depth) EXCEPT ![depth + 1] = @ + 1]]
    /\ UNCHANGED <<tFile, tTodo, relationIDs, relationRelationIDs,
                   relationParents, tPhase, notStatsVars>>

\* the lines after the Iterate calls: the sizes, then
\* stats.NumRelationDepths[0] = ..., an index out of range on an empty slice
StatsTail ==
    /\ tPhase = "iterate"
    /\ tIter = {}
    /\ IF Len(stats.NumRelationDepths) = 0
       THEN /\ tPhase' = "panicked"
            /\ stats' = [stats EXCEPT
                   !.RelationRelations = Cardinality(relationRelationIDs)]
       ELSE /\ tPhase' = "returned"
            /\ stats' = [stats EXCEPT
                   !.RelationRelations = Cardinality(relationRelationIDs),
                   !.NumRelationDepths[1] =
                       stats.NumRelations
                       - (Cardinality(relationRelationIDs)
                          - stats.MissingRelationRelations)]
    /\ UNCHANGED <<tFile, tTodo, relationIDs, relationRelationIDs,
                   relationParents, tIter, tCounted, tDeepest, notStatsVars>>

NextStats ==
    \/ \E id \in StatsRelIds : StatsRelationFunc(id)
    \/ StatsParsed
    \/ \E id \in StatsRelIds : StatsIterate(id)
    \/ StatsTail

\* ---------------------------------------------------------------------
\* Parser.FindSuperRelations (find.go 8-25)
\* ---------------------------------------------------------------------

\* the largest number of members of a relation
MaxFindMembers == 3

FindRelIds == {1, 2}

FindMemberTypes == {"node", "way", "relation"}

FindMemberLists ==
    UNION {[1..n -> FindMemberTypes] : n \in 0..MaxFindMembers}

FindFiles ==
    UNION {[ex -> FindMemberLists] : ex \in SUBSET FindRelIds}

InitFind ==
    /\ gFile \in FindFiles
    /\ gTodo = DOMAIN gFile
    /\ gRelations = <<>>
    /\ gPhase = "parse"
    /\ gResult = <<>>

IdleFind ==
    /\ gFile = <<>>
    /\ gTodo = {}
    /\ gRelations = <<>>
    /\ gPhase = "idle"
    /\ gResult = <<>>

\* the loop of relationFunc over relation.Members: one append for every
\* member of type relation
RECURSIVE AppendPerRelationMember(_, _, _)
AppendPerRelationMember(out, members, id) ==
    IF members = <<>> THEN out
    ELSE AppendPerRelationMember(
             IF Head(members) = "relation" THEN Append(out, id) ELSE out,
             Tail(members), id)

\* relationFunc of FindSuperRelations; the workers call it in any order
FindRelationFunc(id) ==
    /\ gPhase = "parse"
    /\ id \in gTodo
    /\ gTodo' = gTodo \ {id}
    /\ gRelations' = AppendPerRelationMember(gRelations, gFile[id], id)
    /\ UNCHANGED <<gFile, gPhase, gResult, notFindVars>>

\* z.Parse returned nil: return relations, nil
FindReturn ==
    /\ gPhase = "parse"
    /\ gTodo = {}
    /\ gPhase' = "returned"
    /\ gResult' = gRelations
    /\ UNCHANGED <<gFile, gTodo, gRelations, notFindVars>>

\* z.Parse returned an error: return nil, err
FindFail ==
    /\ gPhase = "parse"
    /\ gPhase' = "failed"
    /\ gResult' = <<>>
    /\ UNCHANGED <<gFile, gTodo, gRelations, notFindVars>>

NextFind ==
    \/ \E id \in FindRelIds : FindRelationFunc(id)
    \/ FindReturn
    \/ FindFail
----------------------------------------------------------------------------
(* Specifications *)

NextMap ==
    \/ \E k \in Keys, v \in Vals : MapPutOp(k, v)
    \/ \E k \in Keys : MapDelOp(k)
    \/ \E k \in Keys : MapGetOp(k)

InitSpecMap == InitMap /\ IdleSet /\ IdleParse /\ IdleDecode /\ IdleExtract
    /\ IdleConnect /\ IdleLocks
    /\ IdleSelect
    /\ IdleVarint
    /\ IdleClip
    /\ IdlePool
    /\ IdleStats
    /\ IdleFind

SpecMap == InitSpecMap /\ [][NextMap]_vars

NextSet ==
    \/ \E k \in Keys : SetAddOp(k)
    \/ \E k \in Keys : SetDelOp(k)
    \/ \E k \in Keys : SetHasOp(k)

InitSpecSet == InitSet /\ IdleMap /\ IdleParse /\ IdleDecode /\ IdleExtract
    /\ IdleConnect /\ IdleLocks
    /\ IdleSelect
    /\ IdleVarint
    /\ IdleClip
    /\ IdlePool
    /\ IdleStats
    /\ IdleFind

SpecSet == InitSpecSet /\ [][NextSet]_vars

InitSpecParse == InitParse /\ IdleMap /\ IdleSet /\ IdleDecode /\ IdleExtract
    /\ IdleConnect /\ IdleLocks
    /\ IdleSelect
    /\ IdleVarint
    /\ IdleClip
    /\ IdlePool
    /\ IdleStats
    /\ IdleFind

SpecParse == InitSpecParse /\ [][NextParse]_vars

InitSpecDecode == InitDecode /\ IdleMap /\ IdleSet /\ IdleParse /\ IdleExtract
    /\ IdleConnect /\ IdleLocks
    /\ IdleSelect
    /\ IdleVarint
    /\ IdleClip
    /\ IdlePool
    /\ IdleStats
    /\ IdleFind

SpecDecode == InitSpecDecode /\ [][NextDecode]_vars

InitSpecExtract == InitExtract /\ IdleMap /\ IdleSet /\ IdleParse /\ IdleDecode
    /\ IdleConnect /\ IdleLocks
    /\ IdleSelect
    /\ IdleVarint
    /\ IdleClip
    /\ IdlePool
    /\ IdleStats
    /\ IdleFind

SpecExtract == InitSpecExtract /\ [][NextExtract]_vars

InitSpecConnect ==
    InitConnect /\ IdleMap /\ IdleSet /\ IdleParse /\ IdleDecode /\ IdleExtract
    /\ IdleLocks
    /\ IdleSelect
    /\ IdleVarint
    /\ IdleClip
    /\ IdlePool
    /\ IdleStats
    /\ IdleFind

SpecConnect == InitSpecConnect /\ [][NextConnect]_vars

\* the steps of the reader goroutine and of worker w
ReaderStep ==
    \/ ReaderCheck
    \/ ReaderRead
    \/ ReaderSelectDone
    \/ ReaderSelectSend
    \/ ReaderClose
    \/ ParseReturn

WorkerStep(w) ==
    /\ w \in DOMAIN worker
    /\ (WorkerRecv(w) \/ WorkerCheck(w) \/ WorkerProcess(w))

WorkerIds == UNION { 1..(IF n < 1 THEN NumCPU ELSE n) : n \in WorkerSettings }

\* the scheduler lets the reader and every worker run when they can
FairSpecParse ==
    /\ SpecParse
    /\ WF_vars(ReaderStep)
    /\ \A w \in WorkerIds : WF_vars(WorkerStep(w))

InitSpecLocks ==
    InitLocks /\ IdleMap /\ IdleSet /\ IdleParse /\ IdleDecode /\ IdleExtract
    /\ IdleConnect
    /\ IdleSelect
    /\ IdleVarint
    /\ IdleClip
    /\ IdlePool
    /\ IdleStats
    /\ IdleFind

SpecLocks == InitSpecLocks /\ [][NextLocks]_vars

InitSpecSelect ==
    InitSelect
    /\ IdleMap
    /\ IdleSet
    /\ IdleParse
    /\ IdleDecode
    /\ IdleExtract
    /\ IdleConnect
    /\ IdleLocks
    /\ IdleVarint
    /\ IdleClip
    /\ IdlePool
    /\ IdleStats
    /\ IdleFind

SpecSelect == InitSpecSelect /\ [][NextSelect]_vars

InitSpecVarint ==
    InitVarint
    /\ IdleMap
    /\ IdleSet
    /\ IdleParse
    /\ IdleDecode
    /\ IdleExtract
    /\ IdleConnect
    /\ IdleLocks
    /\ IdleSelect
    /\ IdleClip
    /\ IdlePool
    /\ IdleStats
    /\ IdleFind

SpecVarint == InitSpecVarint /\ [][NextVarint]_vars

InitSpecClip ==
    InitClip
    /\ IdleMap
    /\ IdleSet
    /\ IdleParse
    /\ IdleDecode
    /\ IdleExtract
    /\ IdleConnect
    /\ IdleLocks
    /\ IdleSelect
    /\ IdleVarint
    /\ IdlePool
    /\ IdleStats
    /\ IdleFind

SpecClip == InitSpecClip /\ [][NextClip]_vars

InitSpecPool ==
    InitPool
    /\ IdleMap
    /\ IdleSet
    /\ IdleParse
    /\ IdleDecode
    /\ IdleExtract
    /\ IdleConnect
    /\ IdleLocks
    /\ IdleSelect
    /\ IdleVarint
    /\ IdleClip
    /\ IdleStats
    /\ IdleFind

SpecPool == InitSpecPool /\ [][NextPool]_vars

InitSpecStats ==
    InitStats
    /\ IdleMap
    /\ IdleSet
    /\ IdleParse
    /\ IdleDecode
    /\ IdleExtract
    /\ IdleConnect
    /\ IdleLocks
    /\ IdleSelect
    /\ IdleVarint
    /\ IdleClip
    /\ IdlePool
    /\ IdleFind

SpecStats == InitSpecStats /\ [][NextStats]_vars

InitSpecFind ==
    InitFind
    /\ IdleMap
    /\ IdleSet
    /\ IdleParse
    /\ IdleDecode
    /\ IdleExtract
    /\ IdleConnect
    /\ IdleLocks
    /\ IdleSelect
    /\ IdleVarint
    /\ IdleClip
    /\ IdlePool
    /\ IdleStats

SpecFind == InitSpecFind /\ [][NextFind]_vars

----------------------------------------------------------------------------
(* Claims about the containers *)

\* C3: after every sequence of Put, Del and Get, each Get(k) answers as the
\* reference map does (value and found flag, (0, false) for an absent key), the
\* recorded result of the last Get is the reference's answer for that key, and
\* Size() is the number of keys of the reference map.
C3_MapAgreesWithReference ==
    /\ \A k \in Keys : MapGet(m, k) = RefGet(mref, k)
    /\ MapSize(m) = Cardinality(DOMAIN mref)
    /\ mapLast[1] = mapLast[2]

\* C3 witness: the map built with capacity 2 has been rehashed,
\* holds key 0 and two keys that collide in their home slot, and a Get has hit.
C3_Witness ==
    /\ MapLen(m) > 4 /\ m.fillDen = 2
    /\ m.hasFreeKey
    /\ \E k1, k2 \in DOMAIN mref :
          k1 # k2 /\ k1 # 0 /\ k2 # 0 /\ MapHome(m, k1) = MapHome(m, k2)
    /\ mapLast[1].ok

\* C4: after every sequence of Add and Del, Has(k) returns true exactly for the
\* keys added and not deleted since.
C4_SetHasAgreesWithReference ==
    /\ \A k \in Keys : SetHas(s, k) = SetRefHas(sref, k)
    /\ setLast[1] = setLast[2]

\* C5: after every sequence of Add and Del, Size() is the number of distinct
\* keys in the set.
C5_SetSizeIsCardinality ==
    ~s.hung => SetSize(s) = Cardinality(sref)

\* the slots of the set that hold a key
SetUsedSlots(ss) == {i \in DOMAIN ss.data : ss.data[i] # FREE_KEY}

\* C28: after every sequence of Add and Del the slot array of a Set holds a
\* free slot: the number of stored non-zero keys is at most the threshold,
\* the threshold is below the capacity, and no probe loop of Has, Add or Del
\* runs without end. (The Map satisfies the same statement in SpecMap.)
C28_SetKeepsFreeSlot ==
    /\ ~s.hung
    /\ SetHasFreeSlot(s)
    /\ Cardinality(SetUsedSlots(s)) <= s.threshold
    /\ s.threshold < SetLen(s)

----------------------------------------------------------------------------
(* Claims about Parse *)

WellFormedInput(in) ==
    /\ in.len = FileLen(in.blobs)
    /\ \A i \in 1..Len(in.blobs) :
          /\ in.blobs[i].bad = "no"
          /\ \A g \in 1..Len(in.blobs[i].groups) : in.blobs[i].groups[g].badAt = 0

\* the entities of the kinds in fs in a record, in file order
RECURSIVE Expected(_, _, _)
Expected(groups, g, fs) ==
    IF g > Len(groups) THEN <<>>
    ELSE (IF groups[g].kind \in fs THEN GroupEntities(g, groups[g].n) ELSE <<>>)
         \o Expected(groups, g + 1, fs)

Times(e, seq) == Cardinality({ i \in 1..Len(seq) : seq[i] = e })

RecordKinds(rec) == { rec.groups[g].kind : g \in 1..Len(rec.groups) }

ReturnedNil == status = "returned" /\ result = {}

\* C1: when a Parse call with all three callbacks on a well-formed input has
\* returned nil, every entity of every data blob of the input has been passed
\* to its callback exactly once, whatever the worker setting.
C1_EachEntityExactlyOnce ==
    (ReturnedNil /\ funcs = Kinds /\ WellFormedInput(input)) =>
        \A i \in 1..Len(input.blobs) :
            \A g \in 1..Len(input.blobs[i].groups) :
                \A k \in 1..input.blobs[i].groups[g].n :
                    Times(<<g, k>>, delivered[i]) = 1

\* C2: when a Parse call with the callbacks of the kinds in funcs on a
\* well-formed input has returned nil, first or later call, each record has
\* delivered exactly its entities of those kinds, in file order; and a record
\* is skipped only if it was decoded before and holds no kind with a callback.
C2_SubsetParseMatchesFullParse ==
    /\ (ReturnedNil /\ WellFormedInput(input)) =>
          \A i \in 1..Len(input.blobs) :
              delivered[i] = Expected(input.blobs[i].groups, 1, funcs)
    /\ \A i \in skipped :
          i \in everDecoded /\ RecordKinds(input.blobs[i]) \cap funcs = {}

\* C6: every Parse call starts reading at offset 0, whatever Workers is.
C6_ParseSeeksToStart ==
    status \in {"running", "returned"} => startOff = 0

\* C7 as stated: a call whose context was cancelled while some data blob of
\* the input was neither decoded nor skipped returns an error that contains
\* the cancellation; a call returns nil only if no error was recorded and
\* every data blob it read was decoded or skipped.
C7_CancelBeforeLastBlobDone ==
    status = "returned" =>
        /\ cancelAt.early => "ctx" \in result
        /\ result = {} => (errs = {} /\ readData \subseteq handled)

\* C7 amended: a call whose context was cancelled while the reader was at the
\* top of its loop or in its send, or a worker held a blob it had not yet
\* checked the context for, or a blob was queued for a worker still receiving,
\* returns an error that contains the cancellation; a call returns nil only
\* if no error was recorded and every data blob it read was decoded or skipped.
C7_ObservedCancelIsReturned ==
    status = "returned" =>
        /\ cancelAt.due => "ctx" \in result
        /\ result = {} => (errs = {} /\ readData \subseteq handled)

\* C7 witness: a call cancelled with a blob still queued for a worker has
\* returned the cancellation, after delivering the entities of another blob.
C7_Witness ==
    /\ status = "returned"
    /\ cancelAt.due
    /\ "ctx" \in result
    /\ DataBlobs(input) \ handled # {}
    /\ \E i \in handled : delivered[i] # <<>>

\* C9: a call on an input that does not end at a record boundary returns an
\* error.
C9_EndOnlyAtRecordBoundary ==
    (status = "returned"
       /\ input.len \notin { RecordStart(input.blobs, i) : i \in 1..(Len(input.blobs) + 1) })
        => result # {}

\* C15: the value of Pos() never decreases, the steps from one Parse call to
\* the next on the same Parser included.
C15_PosNeverDecreases == [][zpos' >= zpos]_vars

\* C16: when Parse has returned nil, Pos() is the size of the input.
C16_PosAtEndIsInputSize == ReturnedNil => zpos = input.len

\* C17: Parse with Workers at 0 or below does not panic, and when it has
\* returned nil on a well-formed input each record has delivered exactly its
\* entities of the kinds with a callback, in file order, as it does with
\* Workers at the default count.
C17_NonPositiveWorkersIsDefault ==
    /\ status # "panicked"
    /\ (ReturnedNil /\ zWorkers < 1 /\ WellFormedInput(input)) =>
          \A i \in 1..Len(input.blobs) :
              delivered[i] = Expected(input.blobs[i].groups, 1, funcs)

\* C18: under weak fairness of the reader and of each worker, every Parse
\* call that has started its goroutines returns.
C18_ParseCallReturns == (status = "running") ~> (status = "returned")

\* C18 witness: a call has returned the error of a worker that failed on a
\* blob while the reader was blocked in its send with every worker busy.
C18_Witness ==
    /\ status = "returned"
    /\ cancelAt.blocked
    /\ "decode" \in result

----------------------------------------------------------------------------
(* Claims about the primitive decoders *)

DeliveredAreValid ==
    \A i \in 1..Len(dOut) :
        LET e == dOut[i]
        IN CASE e.kind = "way" -> ValidWay(e, dStrings)
             [] e.kind = "relation" ->
                  ValidWay(e, dStrings)
                  /\ ValidMembers(e.roles, Len(e.refs), e.types, dStrings)
             [] e.kind = "node" -> ValidDense(e.of)

\* C8: no callback gets a way or relation with id 0, unequal key and value
\* counts, a key, value or role string index not below the string-table
\* length, unequal role, member and type counts or a member type above 2, nor
\* a node of a group whose id, lat and lon arrays differ in length; whenever
\* the decoder of a kind with a callback meets such a message it fails, and
\* Parse returns an error.
C8_InvalidEntityRefused ==
    /\ DeliveredAreValid
    /\ dBad \cap dFuncs # {} => dErr
    /\ (dDone /\ dBad \cap dFuncs # {}) => dResult # {}

\* C8 witness: after a valid way was delivered, a relation with a role but no
\* member type was refused and Parse returned the error.
C8_Witness ==
    /\ dDone
    /\ dResult # {}
    /\ "relation" \in dBad \cap dFuncs
    /\ Len(dOut) = 1
    /\ dOut[1].kind = "way"
    /\ Len(dOut[1].keys) = 1

----------------------------------------------------------------------------
(* Claims about Extract *)

\* C10: every polygon of a geometry of Extract with Fill set has a shoelace
\* sum that is not negative and every polygon with Fill unset one that is
\* not positive (rings of area zero are let pass), be it made from one closed
\* area way or from the ways of a relation.
C10_PolygonsAreOriented ==
    \A g \in xGeoms :
        \A i \in 1..Len(g.polygons) :
            IF g.polygons[i].Fill
            THEN ShoelaceSum(g.polygons[i].Coords, 1) >= 0
            ELSE ShoelaceSum(g.polygons[i].Coords, 1) <= 0


\* the point geometry nodeFunc makes of node id
NodeGeometry(id) ==
    [type |-> "node", id |-> id, points |-> <<NodeCoord[id]>>,
     lines |-> <<>>, polygons |-> <<>>]

\* inside the bounds or on an edge or corner of them
InOrOnBounds(bounds, c) ==
    /\ bounds[1][1] <= c[1] /\ c[1] <= bounds[2][1]
    /\ bounds[1][2] <= c[2] /\ c[2] <= bounds[2][2]

\* C11: once the node pass has ended, every node of the input that lies inside
\* the bounds or on an edge or corner of them has its node geometry in the
\* result, and a node strictly outside the bounds has no node geometry.
C11_NodesInOrOnBoundsEmitted ==
    xPhase \in {"ways", "relations", "done", "hung"} =>
        \A id \in xFile :
            IF InOrOnBounds(ExtractBounds, NodeCoord[id])
            THEN NodeGeometry(id) \in xGeoms
            ELSE \A g \in xGeoms : ~(g.type = "node" /\ g.id = id)

\* fractions <<n, d>> with d > 0
FracOf(n, d) == IF d < 0 THEN <<-n, -d>> ELSE <<n, d>>

FracBelow(a, b) == a[1] * b[2] < b[1] * a[2]

\* the t in [0, 1] with lo < p + t * d < hi, as the lower and the upper limits
\* of t; none is TRUE when no t does
AxisLimits(p, d, lo, hi) ==
    IF d = 0
    THEN [none |-> ~(lo < p /\ p < hi), lower |-> {}, upper |-> {}]
    ELSE IF d > 0
    THEN [none |-> FALSE, lower |-> {FracOf(lo - p, d)}, upper |-> {FracOf(hi - p, d)}]
    ELSE [none |-> FALSE, lower |-> {FracOf(hi - p, d)}, upper |-> {FracOf(lo - p, d)}]

\* the segment from p to q # p has a point strictly inside the bounds
SegmentCrossesInterior(bounds, p, q) ==
    LET ax == AxisLimits(p[1], q[1] - p[1], bounds[1][1], bounds[2][1])
        ay == AxisLimits(p[2], q[2] - p[2], bounds[1][2], bounds[2][2])
        lower == ax.lower \cup ay.lower \cup {<<0, 1>>}
        upper == ax.upper \cup ay.upper \cup {<<1, 1>>}
    IN /\ p # q
       /\ ~ax.none
       /\ ~ay.none
       /\ \A l \in lower : \A u \in upper : FracBelow(l, u)

\* the refs of a way whose node is in the input
PresentRefs(refs, nodes) == SelectSeq(refs, LAMBDA r : r \in DOMAIN nodes)

WayCrossesInterior(way, nodes) ==
    LET refs == PresentRefs(way.refs, nodes)
    IN \E i \in 1..(Len(refs) - 1) :
          SegmentCrossesInterior(ExtractBounds, nodes[refs[i]].Coord, nodes[refs[i + 1]].Coord)

\* C12: whenever wayFunc has run on a way that has a segment between
\* consecutive present nodes with a point strictly inside the bounds, the
\* result holds a geometry of that way with a line string or a polygon.
C12_CrossingWaysEmitted ==
    [][\A way \in WayInputs :
          (WayFunc(way) /\ WayCrossesInterior(way, xNodes)) =>
              \E g \in xGeoms' :
                  /\ g.type = "way" /\ g.id = way.id
                  /\ (g.lines # <<>> \/ g.polygons # <<>>)]_vars

\* C14: every line string of a geometry in the result has at least 2
\* coordinates, and every polygon ring at least 4 entries of which the last
\* equals the first.
C14_ShapesAreLongEnough ==
    \A g \in xGeoms :
        /\ \A i \in 1..Len(g.lines) : 2 <= Len(g.lines[i])
        /\ \A i \in 1..Len(g.polygons) :
              LET ring == g.polygons[i].Coords
              IN 4 <= Len(ring) /\ ring[1] = ring[Len(ring)]
----------------------------------------------------------------------------
(* Claims about connectRelationWays *)

\* a way stored with the coordinates of both its end nodes
Unclipped(way) ==
    way.First # way.Last /\ way \in {WholeWay(way.First, way.Last), ViaWay(way.First, way.Last)}

Orders(n) == { p \in [1..n -> 1..n] : \A i, j \in 1..n : i # j => p[i] # p[j] }

\* p puts the ways in chain order: each ends at the node the next starts at,
\* and no node is passed twice
ChainsIn(ways, p) ==
    /\ \A i \in 1..(Len(ways) - 1) : ways[p[i]].Last = ways[p[i + 1]].First
    /\ \A i, j \in 1..Len(ways) : i # j => ways[p[i]].First # ways[p[j]].First
    /\ \A i \in 1..Len(ways) : ways[p[i]].Last # ways[p[1]].First

IsOpenChain(ways) ==
    /\ 2 <= Len(ways)
    /\ \A i \in 1..Len(ways) : Unclipped(ways[i])
    /\ \E p \in Orders(Len(ways)) : ChainsIn(ways, p)

\* the coordinates of the ways in the order p, each shared node once
RECURSIVE JoinedCoords(_, _, _)
JoinedCoords(ways, p, i) ==
    IF i > Len(ways) THEN <<>>
    ELSE (IF i = 1 THEN ways[p[i]].Coords ELSE Tail(ways[p[i]].Coords))
         \o JoinedCoords(ways, p, i + 1)

IsOpenContour(coords) == coords[1] # coords[Len(coords)]

\* C13: for member ways that chain by their end nodes, in whatever member
\* order, connectRelationWays returns the one contour that holds their
\* coordinates in chain order with each shared node once; and of the contours
\* it returns for open ways stored with both their end nodes, no open one ends
\* at the node another open one starts at.
C13_ChainedWaysBecomeOneContour ==
    /\ (cPhase \in {"returned", "hung"} /\ IsOpenChain(cWays)) =>
          /\ cPhase = "returned"
          /\ \E p \in Orders(Len(cWays)) :
                ChainsIn(cWays, p) /\ cOut = << JoinedCoords(cWays, p, 1) >>
    /\ (cPhase = "returned" /\ \A i \in 1..Len(cWays) : Unclipped(cWays[i])) =>
          \A i, j \in 1..Len(cOut) :
              (i # j /\ IsOpenContour(cOut[i]) /\ IsOpenContour(cOut[j]))
                  => cOut[i][Len(cOut[i])] # cOut[j][1]

\* C19: connectRelationWays returns for every list of member ways.
C19_ConnectTerminates == cPhase # "hung"
----------------------------------------------------------------------------
(* Claims about the mutexes of Extract's callbacks                          *)

\* worker w is inside an access to the map, of one of the modes
Accessing(w, map, modes) ==
    /\ lWorker[w].prog # <<>>
    /\ lWorker[w].in
    /\ NextOp(w).map = map
    /\ NextOp(w).op \in modes

\* C20: with a filter and several workers, no callback reads a shared
\* identifier map (selectedNodes, selectedWays, selectedRelations) while the
\* callback of another worker writes that map: every access to a map that is
\* written during a pass is made holding the mutex the writes hold
C20_SelectedMapsAreGuarded ==
    /\ \A map \in SelectedMaps : \A w1, w2 \in DOMAIN lWorker :
         (w1 # w2 /\ Accessing(w1, map, {"write"}))
            => ~Accessing(w2, map, {"read", "write"})
    /\ \A a, b \in lUsed :
         (a.map \in SelectedMaps /\ a.map = b.map /\ a.mode = "write")
            => a.held \cap b.held # {}
----------------------------------------------------------------------------
(* Claims about Extract with a filter                                       *)

\* the node table and the way table a run without filter builds of the input
FullNodes ==
    [i \in SelectNodeIds |->
        [Coord |-> NodeCoord[i], Class |-> 0,
         Outcode |-> cohenSutherlandOutcode(ExtractBounds, NodeCoord[i])]]

FullWays ==
    [i \in DOMAIN SelectWayFile |->
        [Coords |-> WayCoords(SelectWayFile[i], FullNodes),
         First |-> SelectWayFile[i].refs[1],
         Last |-> SelectWayFile[i].refs[Len(SelectWayFile[i].refs)]]]

RelationSelected ==
    /\ fFilter.relation # 0
    /\ \E i \in 1..Len(fRelation.members) : fRelation.members[i].type \in {"way", "node"}

\* the ways without class that are members of the selected relation
DependentWays ==
    { id \in DOMAIN SelectWayFile :
        /\ fFilter.way[id] = 0
        /\ RelationSelected
        /\ \E i \in 1..Len(fRelation.members) :
              fRelation.members[i].type = "way" /\ fRelation.members[i].id = id }

WayFuncReturned(id) ==
    \/ fPhase = "ways" /\ id \in fSeen
    \/ fPhase \in {"relations", "done"}

RelationFuncReturned ==
    \/ fPhase = "relations" /\ fRelation.id \in fSeen
    \/ fPhase = "done"

\* the geometry of the relation built of the clipped coordinates of all its
\* member ways and of its member nodes inside the bounds
FullRelationGeometry ==
    LET roles == IF \E i \in 1..Len(fRelation.members) : fRelation.members[i].type = "way"
                 THEN <<"outer">> ELSE <<>>
        shapes == RelationShapes(fRelation.members, roles, 1, FullWays)
    IN [type |-> "relation", id |-> fRelation.id,
        points |-> MemberPoints(fRelation.members, 1, FullNodes),
        lines |-> shapes.lines, polygons |-> FillFirst(shapes.polygons)]

HasShape(geom) ==
    0 < Len(geom.points) \/ 0 < Len(geom.lines) \/ 0 < Len(geom.polygons)

C25_RelationPolygonsNeedArea ==
    \A g \in fGeoms :
        (g.geom.type = "relation" /\ ~fRelation.area) =>
            /\ g.geom.polygons = <<>>
            /\ \A id \in DOMAIN fWays :
                  (/\ fWays[id].First = fWays[id].Last
                   /\ 2 < Len(fWays[id].Coords)
                   /\ \E i \in 1..Len(fRelation.members) :
                         fRelation.members[i].type = "way" /\ fRelation.members[i].id = id)
                      => \E i \in 1..Len(g.geom.lines) : g.geom.lines[i] = fWays[id].Coords
----------------------------------------------------------------------------
(* Claims about readVarint and skipField                                    *)

\* C22: skipField returns, for wire type 0, the byte length of the varint at
\* the start of the buffer (the n of readVarint for a valid varint), for wire
\* type 1 it returns 8, for wire type 5 it returns 4, for wire type 2 the
\* size of the length varint plus the payload length, for the others 0
C22_SkipFieldSizes ==
    vCall = "skipField" =>
        LET r == readVarint(vBuf)
        IN CASE vWire = 0 -> (r[2] > 0 => vOut[1] = FromNat(r[2]))
             [] vWire = 1 -> vOut[1] = FromNat(8)
             [] vWire = 2 -> vOut[1] = AddAt(r[1], 1, r[2])
             [] vWire = 5 -> vOut[1] = FromNat(4)
             [] OTHER -> vOut[1] = FromNat(0)

\* the loop that accumulates 7-bit groups, lowest first
RECURSIVE ReferenceFrom(_, _, _)
ReferenceFrom(b, i, x) ==
    IF i > Len(b) \/ i > 10 THEN <<Zero64, 0>>
    ELSE IF b[i] >= 128 THEN ReferenceFrom(b, i + 1, [x EXCEPT ![i] = b[i] - 128])
    ELSE IF i = 10 /\ b[i] >= 2 THEN <<Zero64, 0>>
    ELSE <<[x EXCEPT ![i] = b[i]], i>>

\* C23: readVarint returns the (value, n) of the reference loop for every
\* byte sequence, n = 0 when the input ends early or the 10th byte is 2 or
\* more; the canonical encoding of x decodes to (x, its length)
C23_ReadVarintIsReference ==
    vCall = "readVarint" =>
        /\ vOut = ReferenceFrom(vBuf, 1, Zero64)
        /\ vBuf = EncodeVarint(vX) => vOut = <<vX, Len(vBuf)>>
        /\ vOut[2] \in 0..10

\* a value with bit 63 set decoded from its ten bytes
C23_Witness ==
    /\ vCall = "readVarint"
    /\ vBuf = EncodeVarint(vX)
    /\ vOut = <<vX, 10>>
    /\ vX[10] = 1 /\ vX[1] = 127
----------------------------------------------------------------------------
(* Claims about clipping                                                    *)

OnBoundary(bounds, c) ==
    /\ InOrOnBounds(bounds, c)
    /\ \/ c[1] \in {bounds[1][1], bounds[2][1]}
       \/ c[2] \in {bounds[1][2], bounds[2][2]}

\* c lies on the straight segment from p to q
OnSegment(p, q, c) ==
    /\ (q[1] - p[1]) * (c[2] - p[2]) = (q[2] - p[2]) * (c[1] - p[1])
    /\ (c[1] - p[1]) * (c[1] - q[1]) <= 0
    /\ (c[2] - p[2]) * (c[2] - q[2]) <= 0

\* the coordinate the loop has put next to the inside node
Inserted == IF kDir = "out" THEN kCoords[2] ELSE kCoords[Len(kCoords) - 1]

\* C24: when two consecutive present nodes of a way go from inside the bounds
\* to outside or from outside to inside, the coordinate that clipping inserts
\* lies on the boundary of the bounds and on the straight segment between the
\* two nodes, for every outcode of the outside node, corner outcodes included
C24_ClippedCoordOnBoundaryAndSegment ==
    kDone =>
        /\ Len(kCoords) >= 2
        /\ kCoords[IF kDir = "out" THEN 1 ELSE Len(kCoords)] = kInner
        /\ OnBoundary(ExtractBounds, Inserted)
        /\ OnSegment(kInner, kOuter, Inserted)
----------------------------------------------------------------------------
(* Claims about the buffer pool                                             *)

\* how many hold buffer b: the pool, the reader, the blobs in the channel,
\* the workers with their blob's Data and with buf
RECURSIVE InChan(_, _)
InChan(b, i) ==
    IF i > Len(pChan) THEN 0
    ELSE (IF pChan[i].data = b THEN 1 ELSE 0) + InChan(b, i + 1)

RECURSIVE InWorkers(_, _)
InWorkers(b, w) ==
    IF w > NumCPU THEN 0
    ELSE (IF pWorker[w].data = b THEN 1 ELSE 0) + (IF pWorker[w].buf = b THEN 1 ELSE 0)
         + InWorkers(b, w + 1)

Owners(b) ==
    pPool[b] + (IF pReader.buf = b THEN 1 ELSE 0) + InChan(b, 1) + InWorkers(b, 1)

\* C26: a pooled byte buffer has at most one owner at any moment: while a
\* worker decodes a block or runs a callback on it, the buffer is not in the
\* pool and not with the reader or another worker, and no buffer is in the
\* pool twice
C26_BufferHasOneOwner ==
    pReader.pc # "idle" =>
        /\ \A b \in 1..MaxBufs : Owners(b) <= 1
        /\ \A w \in PoolWorkers :
              pWorker[w].pc \in {"inflate", "decode", "decoded"} =>
                  /\ pWorker[w].buf # 0
                  /\ pPool[pWorker[w].buf] = 0
                  /\ pReader.buf # pWorker[w].buf

\* one worker runs callbacks on a buffer it has inflated into while the
\* reader fills another and a third lies in the pool
C26_Witness ==
    /\ pWorker[1].pc = "decoded" /\ pWorker[1].buf # 0
    /\ \E b \in 1..MaxBufs : pPool[b] = 1
    /\ pWorker[1].type = 3
    /\ pReader.pc = "read" /\ pReader.buf # 0

\* ---------------------------------------------------------------------
\* Claims on Parser.Stats (SpecStats)
\* ---------------------------------------------------------------------

\* the relations that list id as a member, read from the file
FileParents(id) ==
    {r \in DOMAIN tFile : id \in SeqRange(tFile[r])}

\* the relations reached from id by n or fewer steps to a parent, n >= 1
RECURSIVE Ancestors(_, _)
Ancestors(id, n) ==
    IF n = 1 THEN FileParents(id)
    ELSE LET a == Ancestors(id, n - 1)
         IN  a \cup UNION {FileParents(x) : x \in a}

OnCycle(id) == id \in Ancestors(id, Cardinality(StatsRelIds))

Visited(id) ==
    /\ tPhase \in {"iterate", "returned", "panicked"}
    /\ id \in relationRelationIDs
    /\ id \notin tIter

\* C27: relationDepth returns for every parent graph, self-membership and
\* membership cycles included, is never entered with a Depth above
\* MaxRelationDepth, and every existing relation on a membership cycle that
\* the Iterate callback has visited is counted in NumRecursiveRelations and
\* in no bucket of NumRelationDepths.
C27_CyclesAreRecursive ==
    /\ tDeepest <= MaxRelationDepth
    /\ \A id \in DOMAIN tFile :
           (OnCycle(id) /\ Visited(id)) => tCounted[id] = MathMaxInt
    /\ tPhase \in {"iterate", "panicked"} =>
          /\ stats.NumRecursiveRelations =
                 Cardinality({id \in StatsRelIds : tCounted[id] = MathMaxInt})
          /\ \A d \in 0..(Len(stats.NumRelationDepths) - 1) :
                 stats.NumRelationDepths[d + 1] =
                     Cardinality({id \in StatsRelIds : tCounted[id] = d})
    /\ tPhase = "returned" =>
          /\ stats.NumRecursiveRelations =
                 Cardinality({id \in StatsRelIds : tCounted[id] = MathMaxInt})
          /\ \A d \in 1..(Len(stats.NumRelationDepths) - 1) :
                 stats.NumRelationDepths[d + 1] =
                     Cardinality({id \in StatsRelIds : tCounted[id] = d})

\* Stats has returned for a file with a membership cycle of length two and
\* a relation nested in a relation off the cycle
C27_Witness ==
    /\ tPhase = "returned"
    /\ tDeepest = MaxRelationDepth
    /\ \E a, b \in DOMAIN tFile :
           /\ a # b
           /\ a \in FileParents(b)
           /\ b \in FileParents(a)
           /\ tCounted[a] = MathMaxInt
           /\ tCounted[b] = MathMaxInt
    /\ stats.NumRecursiveRelations = 2
    /\ Len(stats.NumRelationDepths) = 2

\* C29: Stats returns a Stats value and a nil error for every well-formed
\* file, a file with no relations and a file in which no relation is a
\* member of an existing relation included, and NumRelationDepths then has
\* the number of all relations in bucket 0.
C29_StatsReturns ==
    /\ tPhase # "panicked"
    /\ (tPhase = "returned"
        /\ \A r \in DOMAIN tFile : FileParents(r) = {}) =>
           /\ Len(stats.NumRelationDepths) >= 1
           /\ stats.NumRelationDepths[1] = Cardinality(DOMAIN tFile)

\* ---------------------------------------------------------------------
\* Claims on FindSuperRelations (SpecFind)
\* ---------------------------------------------------------------------

Occurrences(q, x) == Cardinality({i \in 1..Len(q) : q[i] = x})

RelationMembers(id) ==
    Cardinality({i \in 1..Len(gFile[id]) : gFile[id][i] = "relation"})

\* C30: FindSuperRelations returns every relation of the file that has a
\* member of type relation exactly once, however many such members it has,
\* and no relation without one.
C30_SuperRelationsOnce ==
    gPhase = "returned" =>
        \A id \in DOMAIN gFile :
            Occurrences(gResult, id) = IF RelationMembers(id) >= 1 THEN 1 ELSE 0
====
